---- MODULE Spec2Model ----
(***************************************************************************)
(* Model of the CAN real-time plotter: the database parser                 *)
(* (src/src/parsers/database_parser.py), the CAN interface manager         *)
(* (src/src/can_interface/can_manager.py) and the message sender widget    *)
(* (src/src/gui/message_sender.py).                                        *)
(*                                                                         *)
(* The parser delegates file parsing and bit packing to the cantools       *)
(* library.  The library calls are modelled by the behaviour the parser    *)
(* observes at each call site: load_file returns a Database or raises,     *)
(* Message.decode / Message.encode return a value or raise.                *)
(***************************************************************************)
EXTENDS Integers, Sequences, FiniteSets, TLC

(***************************************************************************)
(* Python values.  None is a distinguished value; a call either returns a  *)
(* value or raises an exception, so every modelled call yields a record    *)
(* [exc, msg, val] with exc = "none" for a normal return.                  *)
(***************************************************************************)
None == [none |-> TRUE]

Ret(v) == [exc |-> "none", msg |-> "", val |-> v]

Raise(e, m) == [exc |-> e, msg |-> m, val |-> None]

Max(a, b) == IF a >= b THEN a ELSE b

Min(a, b) == IF a <= b THEN a ELSE b

RECURSIVE Pow2(_)
Pow2(n) == IF n = 0 THEN 1 ELSE 2 * Pow2(n - 1)

(***************************************************************************)
(* Arbitrary-precision naturals, as sequences of 14-bit limbs, least       *)
(* significant limb first, without leading zero limbs (zero is the empty   *)
(* sequence).  They carry the 53-bit significands of Python floats         *)
(* (IEEE-754 binary64) and the exact intermediate results of float         *)
(* multiplication and division.                                            *)
(***************************************************************************)
LimbBits == 14

Base == Pow2(LimbBits)

LLimb(a, i) == IF i <= Len(a) THEN a[i] ELSE 0

RECURSIVE LTrim(_)
LTrim(a) ==
    IF a = <<>> THEN a
    ELSE IF a[Len(a)] = 0 THEN LTrim(SubSeq(a, 1, Len(a) - 1)) ELSE a

RECURSIVE LFromNat(_)
LFromNat(n) == IF n = 0 THEN <<>> ELSE <<n % Base>> \o LFromNat(n \div Base)

RECURSIVE LToNat(_)
LToNat(a) == IF a = <<>> THEN 0 ELSE a[1] + Base * LToNat(Tail(a))

\* carry propagation over column values
RECURSIVE LNorm(_, _)
LNorm(cols, c) ==
    IF cols = <<>> THEN LFromNat(c)
    ELSE LET v == cols[1] + c
         IN  <<v % Base>> \o LNorm(Tail(cols), v \div Base)

LAdd(a, b) ==
    LNorm([i \in 1..Max(Len(a), Len(b)) |-> LLimb(a, i) + LLimb(b, i)], 0)

\* a - b for a >= b
RECURSIVE LSubC(_, _, _)
LSubC(a, b, c) ==
    IF a = <<>> THEN <<>>
    ELSE LET d == a[1] - LLimb(b, 1) - c
         IN  <<(d + Base) % Base>>
             \o LSubC(Tail(a), IF b = <<>> THEN b ELSE Tail(b),
                      IF d < 0 THEN 1 ELSE 0)

LSub(a, b) == LTrim(LSubC(a, b, 0))

\* -1, 0, 1 as a < b, a = b, a > b
RECURSIVE LCmpFrom(_, _, _)
LCmpFrom(a, b, i) ==
    IF i = 0 THEN 0
    ELSE IF a[i] > b[i] THEN 1
    ELSE IF a[i] < b[i] THEN -1
    ELSE LCmpFrom(a, b, i - 1)

LCmp(a, b) ==
    IF Len(a) > Len(b) THEN 1
    ELSE IF Len(a) < Len(b) THEN -1
    ELSE LCmpFrom(a, b, Len(a))

\* column k of the schoolbook product: the sum of a[i] * b[k + 1 - i]
RECURSIVE LCol(_, _, _, _)
LCol(a, b, k, i) ==
    IF i > Len(a) \/ i > k THEN 0
    ELSE (IF k + 1 - i <= Len(b) THEN a[i] * b[k + 1 - i] ELSE 0)
         + LCol(a, b, k, i + 1)

LMul(a, b) ==
    IF a = <<>> \/ b = <<>> THEN <<>>
    ELSE LTrim(LNorm([k \in 1..(Len(a) + Len(b) - 1) |-> LCol(a, b, k, 1)], 0))

RECURSIVE NatBitLen(_)
NatBitLen(n) == IF n = 0 THEN 0 ELSE 1 + NatBitLen(n \div 2)

LBitLen(a) ==
    IF a = <<>> THEN 0 ELSE LimbBits * (Len(a) - 1) + NatBitLen(a[Len(a)])

LShl(a, k) ==
    IF a = <<>> THEN <<>>
    ELSE [i \in 1..(k \div LimbBits) |-> 0]
         \o LNorm([i \in 1..Len(a) |-> a[i] * Pow2(k % LimbBits)], 0)

LShr(a, k) ==
    LET w == k \div LimbBits
        s == k % LimbBits
    IN  IF Len(a) <= w THEN <<>>
        ELSE LTrim([i \in 1..(Len(a) - w) |->
                      (a[i + w] \div Pow2(s))
                      + (LLimb(a, i + w + 1) % Pow2(s)) * Pow2(LimbBits - s)])

\* a mod 2^k
LLow(a, k) == LSub(a, LShl(LShr(a, k), k))

LIsOdd(a) == a # <<>> /\ a[1] % 2 = 1

\* the largest quotient digit t in lo..hi with t * d <= r
RECURSIVE LDigit(_, _, _, _)
LDigit(r, d, lo, hi) ==
    IF lo = hi THEN lo
    ELSE LET mid == (lo + hi + 1) \div 2
         IN  IF LCmp(LMul(d, <<mid>>), r) <= 0
             THEN LDigit(r, d, mid, hi)
             ELSE LDigit(r, d, lo, mid - 1)

\* the estimate of the next quotient digit from the two top limbs of the
\* partial remainder r and the top limb of d, for d with its top bit set:
\* the digit is the estimate or up to two below it
LEstimate(r, d) ==
    Min(Base - 1,
        (LLimb(r, Len(d) + 1) * Base + LLimb(r, Len(d))) \div d[Len(d)])

\* long division of n by d, one limb of n at a time from the top, for d
\* with the top bit of its top limb set
RECURSIVE LDivStep(_, _, _, _, _)
\* the step's digit t is taken: it joins the quotient q, and t * d leaves the
\* partial remainder r2
LDivSub(n, d, i, q, r2, t) ==
    LDivStep(n, d, i, <<t>> \o q,
             IF t = 0 THEN r2 ELSE LSub(r2, LMul(d, <<t>>)))

\* the step's digit, found from its estimate est
LDivDigit(r2, d, est) == LDigit(r2, d, Max(1, est - 2), est)

\* the step for the partial remainder r2, which has taken the next limb of n
LDivTry(n, d, i, q, r2) ==
    LDivSub(n, d, i, q, r2,
            IF LCmp(r2, d) < 0 THEN 0 ELSE LDivDigit(r2, d, LEstimate(r2, d)))

LDivStep(n, d, i, q, r) ==
    IF i = 0 THEN [q |-> LTrim(q), r |-> r]
    ELSE LDivTry(n, d, i - 1, q, LTrim(<<n[i]>> \o r))

\* the division of n by d, both shifted left by sh so that d has the top
\* bit of its top limb set; the remainder is shifted back
LDivFrom(n, d) == LDivStep(n, d, Len(n), <<>>, <<>>)

LDivOut(res, sh) == [q |-> res.q, r |-> LShr(res.r, sh)]

LDivShifted(n, d, sh) == LDivOut(LDivFrom(LShl(n, sh), LShl(d, sh)), sh)

\* [q, r] with n = q * d + r and r < d, for d # 0
LDivMod(n, d) == LDivShifted(n, d, LimbBits * Len(d) - LBitLen(d))

(***************************************************************************)
(* Python floats: IEEE-754 binary64, round to nearest, ties to even.  A    *)
(* finite float is [s, m, e] with value (-1)^s * m * 2^e, where m is a     *)
(* 53-bit significand, or the empty sequence for zero.  Subnormals,        *)
(* infinities and NaN lie outside the value ranges of the model.           *)
(***************************************************************************)
SignificandBits == 53

FZero == [s |-> 0, m |-> <<>>, e |-> 0]

\* the float nearest to the exact value (-1)^s * M * 2^E
\* q, the bits of a magnitude above a cut, rounded by c, the comparison of
\* the bits below the cut with half a unit: up when above half, to even when
\* at half
LRoundUp(q, c) ==
    IF c > 0 \/ (c = 0 /\ LIsOdd(q)) THEN LAdd(q, <<1>>) ELSE q

\* M / 2^sh rounded to the nearest integer, ties to even, for sh >= 1
LRoundShr(M, sh) ==
    LRoundUp(LShr(M, sh), LCmp(LLow(M, sh), LShl(<<1>>, sh - 1)))

\* the float of a rounded significand q of 53 bits, or of 54 when the
\* rounding carried
FCarry(s, q, e) ==
    IF LBitLen(q) > SignificandBits
    THEN [s |-> s, m |-> LShr(q, 1), e |-> e + 1]
    ELSE [s |-> s, m |-> q, e |-> e]

\* the float nearest to (-1)^s * M * 2^E for M of n bits
FRoundBits(s, M, E, n) ==
    IF n <= SignificandBits
    THEN [s |-> s, m |-> LShl(M, SignificandBits - n),
          e |-> E - (SignificandBits - n)]
    ELSE FCarry(s, LRoundShr(M, n - SignificandBits),
                E + (n - SignificandBits))

FRound(s, M, E) ==
    IF M = <<>> THEN FZero ELSE FRoundBits(s, M, E, LBitLen(M))

Abs(i) == IF i < 0 THEN -i ELSE i

\* float(i) for a Python int
FFromInt(i) == FRound(IF i < 0 THEN 1 ELSE 0, LFromNat(Abs(i)), 0)

FNeg(x) == IF x.m = <<>> THEN x ELSE [x EXCEPT !.s = 1 - x.s]

FMul(x, y) ==
    IF x.m = <<>> \/ y.m = <<>> THEN FZero
    ELSE FRound((x.s + y.s) % 2, LMul(x.m, y.m), x.e + y.e)

\* the sum of (-1)^sx * X * 2^e0 and (-1)^sy * Y * 2^e0, c comparing X
\* with Y: the sign is that of the larger magnitude, and equal magnitudes
\* of opposite sign give +0.0
FAddSigned(sx, sy, X, Y, e0, c) ==
    FRound(IF sx = sy \/ c > 0 THEN sx ELSE sy,
           IF sx = sy THEN LAdd(X, Y)
           ELSE IF c > 0 THEN LSub(X, Y)
           ELSE IF c < 0 THEN LSub(Y, X)
           ELSE <<>>,
           e0)

FAddMagnitudes(sx, sy, X, Y, e0) == FAddSigned(sx, sy, X, Y, e0, LCmp(X, Y))

\* x + y for nonzero x and y, at their common exponent e0
FAddAligned(x, y, e0) ==
    FAddMagnitudes(x.s, y.s, LShl(x.m, x.e - e0), LShl(y.m, y.e - e0), e0)

FAdd(x, y) ==
    IF x.m = <<>> THEN y
    ELSE IF y.m = <<>> THEN x
    ELSE FAddAligned(x, y, Min(x.e, y.e))

FSub(x, y) == FAdd(x, FNeg(y))

\* x / y for y # 0: the quotient of the significands to 57 or 58 bits with
\* a sticky bit for the remainder, then rounded
GuardBits == 56

\* the float of the quotient dm.q with the sticky bit of the remainder dm.r
FDivSticky(s, dm, e) ==
    FRound(s, LAdd(LShl(dm.q, 1), IF dm.r = <<>> THEN <<>> ELSE <<1>>), e)

FDiv(x, y) ==
    IF x.m = <<>> THEN FZero
    ELSE IF y.m = LShl(<<1>>, SignificandBits - 1)
    THEN \* division by a power of two is exact
         [s |-> (x.s + y.s) % 2, m |-> x.m,
          e |-> x.e - y.e - (SignificandBits - 1)]
    ELSE FDivSticky((x.s + y.s) % 2, LDivMod(LShl(x.m, GuardBits), y.m),
                    x.e - y.e - GuardBits - 1)

\* int(x): truncation toward zero
FTrunc(x) ==
    IF x.m = <<>> THEN 0
    ELSE (IF x.s = 1 THEN -1 ELSE 1)
         * LToNat(IF x.e >= 0 THEN LShl(x.m, x.e) ELSE LShr(x.m, -x.e))

\* round(x): to the nearest integer, ties to even
FRoundInt(x) ==
    IF x.m = <<>> \/ x.e >= 0 THEN FTrunc(x)
    ELSE (IF x.s = 1 THEN -1 ELSE 1) * LToNat(LRoundShr(x.m, -x.e))

\* the float denoted by the decimal literal num/den, as float() parses it
FDec(num, den) == FDiv(FFromInt(num), FFromInt(den))

(***************************************************************************)
(* Python numbers: int or float, with Python's mixed arithmetic (an int    *)
(* operand of a float operation is converted to float; true division       *)
(* always yields a float).                                                 *)
(***************************************************************************)
PyI(v) == [t |-> "int", v |-> v, f |-> FZero]

PyF(f) == [t |-> "float", v |-> 0, f |-> f]

ToF(x) == IF x.t = "int" THEN FFromInt(x.v) ELSE x.f

PyIsZero(x) == IF x.t = "int" THEN x.v = 0 ELSE x.f.m = <<>>

PyMul(x, y) ==
    IF x.t = "int" /\ y.t = "int" THEN PyI(x.v * y.v)
    ELSE PyF(FMul(ToF(x), ToF(y)))

PyAdd(x, y) ==
    IF x.t = "int" /\ y.t = "int" THEN PyI(x.v + y.v)
    ELSE PyF(FAdd(ToF(x), ToF(y)))

PySub(x, y) ==
    IF x.t = "int" /\ y.t = "int" THEN PyI(x.v - y.v)
    ELSE PyF(FSub(ToF(x), ToF(y)))

PyTrueDiv(x, y) ==
    IF x.t = "int" /\ y.t = "int" /\ x.v % Abs(y.v) = 0
    THEN \* an integral quotient is exact
         PyF(FFromInt(IF y.v < 0 THEN -(x.v \div (-y.v)) ELSE x.v \div y.v))
    ELSE PyF(FDiv(ToF(x), ToF(y)))

PyInt(x) == IF x.t = "int" THEN x.v ELSE FTrunc(x.f)

PyRound(x) == IF x.t = "int" THEN x.v ELSE FRoundInt(x.f)

\* x < y
FLess(x, y) ==
    LET mag(a, b) ==   \* |a| < |b|
            IF a.m = <<>> THEN b.m # <<>>
            ELSE IF b.m = <<>> THEN FALSE
            ELSE a.e < b.e \/ (a.e = b.e /\ LCmp(a.m, b.m) < 0)
    IN  IF x.s = 0 /\ y.s = 0 THEN mag(x, y)
        ELSE IF x.s = 1 /\ y.s = 1 THEN mag(y, x)
        ELSE x.s = 1 /\ (x.m # <<>> \/ y.m # <<>>)

PyLess(x, y) ==
    IF x.t = "int" /\ y.t = "int" THEN x.v < y.v ELSE FLess(ToF(x), ToF(y))

(***************************************************************************)
(* Frames and bit layout.  A frame's data is a sequence of bytes.  Bit     *)
(* positions are numbered as in the database files: position p is bit      *)
(* p % 8 of byte p \div 8, bit 0 being a byte's least significant bit.  A  *)
(* little-endian signal starts at its least significant bit and grows      *)
(* upward; a big-endian signal starts at its most significant bit and      *)
(* continues downward through the byte, then from bit 7 of the next byte.  *)
(***************************************************************************)
GetBit(data, p) == (data[(p \div 8) + 1] \div Pow2(p % 8)) % 2

\* the position in the frame of bit k of a signal's raw value (k = 0 is
\* the least significant bit)
BitPos(sig, k) ==
    IF sig.byte_order = "little_endian" THEN sig.start + k
    ELSE LET lin == 8 * (sig.start \div 8) + (7 - (sig.start % 8))
                    + (sig.length - 1 - k)
         IN  8 * (lin \div 8) + (7 - (lin % 8))

\* the signal fits in nbytes bytes of data
SignalFits(sig, nbytes) ==
    \A k \in 0..(sig.length - 1) :
        BitPos(sig, k) >= 0 /\ BitPos(sig, k) < 8 * nbytes

RECURSIVE UnpackBits(_, _, _)
UnpackBits(sig, data, k) ==
    IF k = sig.length THEN 0
    ELSE GetBit(data, BitPos(sig, k)) * Pow2(k) + UnpackBits(sig, data, k + 1)

\* the raw integer of a signal in a frame, sign-extended for signed signals
UnpackRaw(sig, data) ==
    LET u == UnpackBits(sig, data, 0)
    IN  IF sig.is_signed /\ u >= Pow2(sig.length - 1)
        THEN u - Pow2(sig.length) ELSE u

RawFits(sig, raw) ==
    IF sig.is_signed
    THEN -Pow2(sig.length - 1) <= raw /\ raw < Pow2(sig.length - 1)
    ELSE 0 <= raw /\ raw < Pow2(sig.length)

\* the bits of raw (two's complement) that fall into byte b (0-based)
RECURSIVE PackByte(_, _, _, _)
PackByte(sig, raw, b, k) ==
    IF k = sig.length THEN 0
    ELSE (IF BitPos(sig, k) \div 8 = b
          THEN (((raw % Pow2(sig.length)) \div Pow2(k)) % 2)
               * Pow2(BitPos(sig, k) % 8)
          ELSE 0)
         + PackByte(sig, raw, b, k + 1)

\* data with the signal's bits, all zero in data, set from raw
PackRaw(sig, raw, data) ==
    [i \in 1..Len(data) |-> data[i] + PackByte(sig, raw, i - 1, 0)]

ZeroFrame(nbytes) == [i \in 1..nbytes |-> 0]

(***************************************************************************)
(* The database model: what cantools builds from a database file.  A       *)
(* Database holds its messages in file order; a Message holds its signals. *)
(* A signal without enumeration labels has the empty mapping as choices.   *)
(***************************************************************************)
Signal(name, start, length, byte_order, is_signed, scale, offset, minimum, maximum, unit, choices) ==
    [name |-> name, start |-> start, length |-> length,
     byte_order |-> byte_order, is_signed |-> is_signed,
     scale |-> scale, offset |-> offset,
     minimum |-> minimum, maximum |-> maximum,
     unit |-> unit, choices |-> choices]

Message(frame_id, name, length, signals) ==
    [frame_id |-> frame_id, name |-> name, length |-> length,
     signals |-> signals, cycle_time |-> None, comment |-> None]

NoChoices == <<>>

OnOff == (0 :> "Off") @@ (1 :> "On")

SpeedA == Signal("Speed", 0, 8, "little_endian", FALSE, PyI(1), PyI(0),
                 PyI(0), PyI(255), "km/h", NoChoices)

TempA == Signal("Temp", 8, 8, "little_endian", TRUE, PyI(1), PyI(-40),
                PyI(-168), PyI(87), "degC", NoChoices)

ModeA == Signal("Mode", 0, 2, "little_endian", FALSE, PyI(1), PyI(0),
                PyI(0), PyI(3), "", OnOff)

\* a.dbc lists its messages in the order 0x200, 0x100, 0x300
DbA == [messages |-> << Message(512, "Engine", 2, <<SpeedA, TempA>>),
                        Message(256, "Status", 1, <<ModeA>>),
                        Message(768, "Heartbeat", 1, <<>>) >>]

SpeedB == Signal("Speed", 7, 16, "big_endian", FALSE,
                 PyF(FDec(1, 100)), PyI(0),
                 PyI(0), PyI(655), "m/s", NoChoices)

PressureB == Signal("Pressure", 0, 8, "little_endian", FALSE, PyI(2), PyI(0),
                    PyI(0), PyI(510), "kPa", NoChoices)

\* b.dbc redefines frame 0x200 and adds 0x400
DbB == [messages |-> << Message(512, "Engine", 2, <<SpeedB>>),
                        Message(1024, "Brake", 1, <<PressureB>>) >>]

LevelS == Signal("Level", 0, 4, "little_endian", FALSE, PyI(1), PyI(0),
                 PyI(0), PyI(15), "", NoChoices)

DbS == [messages |-> << Message(16, "Tank", 1, <<LevelS>>) >>]

(***************************************************************************)
(* The file system seen by load_database: for each path, whether the file  *)
(* exists, its lower-cased suffix, and what cantools makes of its content: *)
(* a Database, or an exception with its message.                           *)
(***************************************************************************)
SymVersionMessage == "Only SYM version 6.0 is supported"

File(exists, suffix, parse) ==
    [exists |-> exists, suffix |-> suffix, parse |-> parse]

Paths == {"a.dbc", "b.dbc", "bad.dbc", "gone.dbc", "v6.sym", "v5.sym",
          "bad.sym", "notes.txt"}

FileSystem ==
    [p \in Paths |->
        CASE p = "a.dbc"     -> File(TRUE, ".dbc", Ret(DbA))
          [] p = "b.dbc"     -> File(TRUE, ".dbc", Ret(DbB))
          [] p = "bad.dbc"   -> File(TRUE, ".dbc",
                                     Raise("UnsupportedDatabaseFormatError",
                                           "DBC: Invalid syntax"))
          [] p = "gone.dbc"  -> File(FALSE, ".dbc", Raise("FileNotFoundError", ""))
          [] p = "v6.sym"    -> File(TRUE, ".sym", Ret(DbS))
          [] p = "v5.sym"    -> File(TRUE, ".sym",
                                     Raise("UnsupportedDatabaseFormatError",
                                           SymVersionMessage))
          [] p = "bad.sym"   -> File(TRUE, ".sym",
                                     Raise("UnsupportedDatabaseFormatError",
                                           "SYM: Invalid syntax"))
          [] p = "notes.txt" -> File(TRUE, ".txt", Raise("", ""))]

\* cantools.database.load_file(file_path)
load_file(path) == FileSystem[path].parse

Databases == {DbA, DbB, DbS}

(***************************************************************************)
(* DatabaseParser (src/src/parsers/database_parser.py).  A parser object   *)
(* is the record self = [db, file_path, file_type]; file_path is a Path    *)
(* object and file_type a string, each wrapped in a record so that it can  *)
(* be compared with None.                                                  *)
(***************************************************************************)
Path(p) == [path |-> p]

Str(x) == [str |-> x]

NewParser == [db |-> None, file_path |-> None, file_type |-> None]

\* load_database: [self, ret, log], self being the parser after the call
\* and log the first error line written to the logger ("" on success)
\* load_database as it would be if the except clause dropped the database
load_database_clearing(self, file_path) ==
    LET f          == FileSystem[file_path]
        r          == load_file(file_path)
        failed(l)  == [self |-> self, ret |-> FALSE, log |-> l]
        raised(l)  == [self |-> [self EXCEPT !.db = None], ret |-> FALSE,
                       log |-> l]
        loaded(ty) == [self |-> [db |-> r.val, file_type |-> Str(ty),
                                 file_path |-> Path(file_path)],
                       ret |-> TRUE, log |-> ""]
    IN  IF ~f.exists THEN failed("File not found")
        ELSE IF f.suffix = ".dbc"
        THEN IF r.exc = "none" THEN loaded("dbc")
             ELSE raised("Failed to load database")
        ELSE IF f.suffix = ".sym"
        THEN IF r.exc = "none" THEN loaded("sym")
             ELSE IF r.msg = SymVersionMessage
             THEN raised("SYM file version not supported by cantools")
             ELSE raised("Failed to load database")
        ELSE failed("Unsupported file type")

\* load_database as it would be if a load added the file's messages to
\* those of the database already loaded
load_database_merging(self, file_path) ==
    LET f          == FileSystem[file_path]
        r          == load_file(file_path)
        failed(l)  == [self |-> self, ret |-> FALSE, log |-> l]
        merged     == IF self.db = None THEN r.val
                      ELSE [messages |-> self.db.messages \o r.val.messages]
        loaded(ty) == [self |-> [db |-> merged, file_type |-> Str(ty),
                                 file_path |-> Path(file_path)],
                       ret |-> TRUE, log |-> ""]
    IN  IF ~f.exists THEN failed("File not found")
        ELSE IF f.suffix = ".dbc"
        THEN IF r.exc = "none" THEN loaded("dbc")
             ELSE failed("Failed to load database")
        ELSE IF f.suffix = ".sym"
        THEN IF r.exc = "none" THEN loaded("sym")
             ELSE IF r.msg = SymVersionMessage
             THEN failed("SYM file version not supported by cantools")
             ELSE failed("Failed to load database")
        ELSE failed("Unsupported file type")

load_database(self, file_path) ==
    LET f          == FileSystem[file_path]
        r          == load_file(file_path)
        failed(l)  == [self |-> self, ret |-> FALSE, log |-> l]
        loaded(ty) == [self |-> [db |-> r.val, file_type |-> Str(ty),
                                 file_path |-> Path(file_path)],
                       ret |-> TRUE, log |-> ""]
    IN  IF ~f.exists THEN failed("File not found")
        ELSE IF f.suffix = ".dbc"
        THEN IF r.exc = "none" THEN loaded("dbc")
             ELSE failed("Failed to load database")
        ELSE IF f.suffix = ".sym"
        THEN IF r.exc = "none" THEN loaded("sym")
             ELSE IF r.msg = SymVersionMessage
             THEN failed("SYM file version not supported by cantools")
             ELSE failed("Failed to load database")
        ELSE failed("Unsupported file type")

\* MainWindow.load_database, lines 299-310: the text of the error dialog
\* shown when load_database returned False
error_msg(file_path) ==
    IF FileSystem[file_path].suffix = ".sym"
    THEN "Failed to load database file. SYM File Issue"
    ELSE "Failed to load database file. Please check that the file is valid"

\* get_messages: the message dictionaries, in the order of db.messages
get_messages(self) ==
    IF self.db = None THEN <<>>
    ELSE [i \in 1..Len(self.db.messages) |->
            LET msg == self.db.messages[i]
            IN  [name |-> msg.name, id |-> msg.frame_id, dlc |-> msg.length,
                 signals |-> [j \in 1..Len(msg.signals) |-> msg.signals[j].name],
                 cycle_time |-> msg.cycle_time, comment |-> msg.comment]]

\* cantools Database.get_message_by_frame_id: KeyError for an unknown id
get_message_by_frame_id(db, frame_id) ==
    IF \E i \in 1..Len(db.messages) : db.messages[i].frame_id = frame_id
    THEN Ret(db.messages[CHOOSE i \in 1..Len(db.messages) :
                            db.messages[i].frame_id = frame_id])
    ELSE Raise("KeyError", "")

get_message_by_id(self, msg_id) ==
    IF self.db = None THEN Ret(None)
    ELSE LET r == get_message_by_frame_id(self.db, msg_id)
         IN  IF r.exc = "KeyError" THEN Ret(None) ELSE r

\* cantools Database.get_message_by_name: KeyError for an unknown name
db_get_message_by_name(db, name) ==
    IF \E i \in 1..Len(db.messages) : db.messages[i].name = name
    THEN Ret(db.messages[CHOOSE i \in 1..Len(db.messages) :
                            db.messages[i].name = name])
    ELSE Raise("KeyError", "")

get_message_by_name(self, name) ==
    IF self.db = None THEN Ret(None)
    ELSE LET r == db_get_message_by_name(self.db, name)
         IN  IF r.exc = "KeyError" THEN Ret(None) ELSE r

\* get_signals_for_message (lines 140-170): an entry of the list is written
\* as the signal it is built from
get_signals_for_message(self, msg_id) ==
    LET m == get_message_by_id(self, msg_id)
    IN  IF m.val = None THEN <<>> ELSE m.val.signals

\* the entries of get_all_signals for the messages from the i-th on
RECURSIVE all_signals_from(_, _)
all_signals_from(messages, i) ==
    IF i > Len(messages) THEN <<>>
    ELSE [j \in 1..Len(messages[i].signals) |->
            [message_name |-> messages[i].name,
             message_id |-> messages[i].frame_id,
             signal_name |-> messages[i].signals[j].name,
             unit |-> messages[i].signals[j].unit,
             min |-> messages[i].signals[j].minimum,
             max |-> messages[i].signals[j].maximum,
             scale |-> messages[i].signals[j].scale,
             offset |-> messages[i].signals[j].offset]]
         \o all_signals_from(messages, i + 1)

\* get_all_signals as it would be without the check of self.db: None has
\* no attribute messages
get_all_signals_ungated(self) ==
    IF self.db = None
    THEN Raise("AttributeError", "'NoneType' object has no attribute 'messages'")
    ELSE Ret(all_signals_from(self.db.messages, 1))

get_all_signals(self) ==
    IF self.db = None THEN Ret(<<>>)
    ELSE Ret(all_signals_from(self.db.messages, 1))

SignalNames(message) == {message.signals[j].name : j \in 1..Len(message.signals)}

SignalNamed(message, n) ==
    message.signals[CHOOSE j \in 1..Len(message.signals) :
                        message.signals[j].name = n]

\* a decoded value: a number, or the label object cantools returns for a
\* raw value that has an enumeration label
Number(x) == [named |-> FALSE, label |-> "", num |-> x]

Named(label, raw) == [named |-> TRUE, label |-> label, num |-> PyI(raw)]

\* cantools conversion of a raw value: its label when decode_choices is on
\* and the raw value has one, else raw * scale + offset
raw_to_scaled(signal, raw, decode_choices) ==
    IF decode_choices /\ raw \in DOMAIN signal.choices
    THEN Named(signal.choices[raw], raw)
    ELSE Number(PyAdd(PyMul(PyI(raw), signal.scale), signal.offset))

\* cantools Message.decode(data): data shorter than the message length is
\* rejected, excess bytes are ignored
MessageDecode(message, data) ==
    IF Len(data) < message.length
    THEN Raise("DecodeError", "Wrong data size")
    ELSE Ret([n \in SignalNames(message) |->
                raw_to_scaled(SignalNamed(message, n),
                              UnpackRaw(SignalNamed(message, n), data), TRUE)])

\* lines 199-211: one entry of the result
decode_entry(signal, physical_value) ==
    IF physical_value.named
    THEN Raise("TypeError", "unsupported operand type(s) for -")
    ELSE Ret([raw |-> IF ~PyIsZero(signal.scale)
                      THEN PyI(PyInt(PyTrueDiv(PySub(physical_value.num,
                                                     signal.offset),
                                               signal.scale)))
                      ELSE physical_value.num,
              physical |-> physical_value,
              unit |-> signal.unit])

\* lines 196-211: the entries of the signals whose name is in decoded_phys
decode_entries(signals, decoded_phys) ==
    [n \in {signals[j].name : j \in 1..Len(signals)} \cap DOMAIN decoded_phys
       |-> decode_entry(signals[CHOOSE j \in 1..Len(signals) :
                                    signals[j].name = n],
                        decoded_phys[n])]

\* lines 196-213: the loop stops at the first entry that raises; an empty
\* result is returned as None
decode_result(entries) ==
    IF \E n \in DOMAIN entries : entries[n].exc # "none"
    THEN Raise("TypeError", "unsupported operand type(s) for -")
    ELSE IF DOMAIN entries = {} THEN Ret(None)
    ELSE Ret([n \in DOMAIN entries |-> entries[n].val])

\* lines 193-213: after message.decode returned or raised dp
decode_decoded(signals, dp) ==
    IF dp.exc # "none" THEN dp
    ELSE decode_result(decode_entries(signals, dp.val))

\* lines 192-213: decode with a message object already looked up
decode_with(message, signals, data) ==
    decode_decoded(signals, MessageDecode(message, data))

\* lines 187-213: the body of the try block
decode_body(self, msg_id, data) ==
    LET m == get_message_by_id(self, msg_id)
    IN  IF m.exc # "none" THEN m
        ELSE IF m.val = None THEN Ret(None)
        ELSE decode_with(m.val, m.val.signals, data)

\* decode_message as it would be without the try block
decode_message_unguarded(self, msg_id, data) ==
    IF self.db = None THEN Ret(None)
    ELSE decode_body(self, msg_id, data)

\* the except clause of decode_message and of encode_message: an exception
\* of the try block's body r is logged and None returned
except_Exception(r) == IF r.exc # "none" THEN Ret(None) ELSE r

decode_message(self, msg_id, data) ==
    IF self.db = None THEN Ret(None)
    ELSE except_Exception(decode_body(self, msg_id, data))

\* a value of the wrong type in a value map (None, or a string that is no
\* label of the signal)
BadValue == [t |-> "str", v |-> 0, f |-> FZero]

\* cantools conversion of a physical value to the raw integer
scaled_to_raw(signal, value) ==
    PyRound(PyTrueDiv(PySub(value, signal.offset), signal.scale))

RECURSIVE PackSignals(_, _, _, _)
PackSignals(signals, data, j, frame) ==
    IF j > Len(signals) THEN frame
    ELSE PackSignals(signals, data, j + 1,
                     PackRaw(signals[j],
                             scaled_to_raw(signals[j], data[signals[j].name]),
                             frame))

\* a bytes object
PyBytes(b) == [bytes |-> b]

\* cantools Message.encode(data), strict: every signal of the message must
\* be given, no other name may be given, every value must be a number
\* within the signal's minimum and maximum whose raw value fits the
\* signal's bits
MessageEncode(message, data) ==
    LET names == SignalNames(message)
        sig(n) == SignalNamed(message, n)
    IN  IF \E n \in names : n \notin DOMAIN data
        THEN Raise("EncodeError", "signal required for encoding")
        ELSE IF DOMAIN data # names
        THEN Raise("EncodeError", "signals not required to encode the message")
        ELSE IF \E n \in names : data[n].t = "str"
        THEN Raise("EncodeError", "invalid value")
        ELSE IF \E n \in names :
                   \/ (sig(n).minimum # None /\ PyLess(data[n], sig(n).minimum))
                   \/ (sig(n).maximum # None /\ PyLess(sig(n).maximum, data[n]))
        THEN Raise("EncodeError", "value outside the signal's range")
        ELSE IF \E n \in names : ~RawFits(sig(n), scaled_to_raw(sig(n), data[n]))
        THEN Raise("Error", "value does not fit the signal's bits")
        ELSE Ret(PyBytes(PackSignals(message.signals, data, 1,
                                     ZeroFrame(message.length))))

\* encode_body as it would be if it passed on only the values of the
\* message's own signals
encode_body_known_only(self, msg_id, data) ==
    LET m == get_message_by_id(self, msg_id)
    IN  IF m.exc # "none" THEN m
        ELSE IF m.val = None THEN Ret(None)
        ELSE MessageEncode(m.val, [n \in DOMAIN data \cap SignalNames(m.val)
                                      |-> data[n]])

\* lines 234-239: the body of the try block
encode_body(self, msg_id, data) ==
    LET m == get_message_by_id(self, msg_id)
    IN  IF m.exc # "none" THEN m
        ELSE IF m.val = None THEN Ret(None)
        ELSE MessageEncode(m.val, data)

encode_message(self, msg_id, data) ==
    IF self.db = None THEN Ret(None)
    ELSE except_Exception(encode_body(self, msg_id, data))

is_loaded(self) == self.db # None

(***************************************************************************)
(* DataRecorder (src/src/recorder/data_recorder.py).  A recorder is the    *)
(* record self = [is_recording, file_path, csv_file, csv_writer,           *)
(* message_count, recording_mode, selected_signals].  csv_file is None or  *)
(* the open file, [rows], the rows being the lists passed to writerow so   *)
(* far; a cell of a row is a tagged value.  Whether mkdir, open and        *)
(* writerow succeed is an input of each operation.  Each operation yields  *)
(* [self, ret, emitted]: the recorder afterwards, the value returned and   *)
(* the Qt signals emitted, each [sig, text, n] with the signal's string or *)
(* integer argument.                                                       *)
(***************************************************************************)
StrCell(x) == [s |-> x]

IntCell(x) == [i |-> x]

BoolCell(x) == [b |-> x]

PyList(l) == [list |-> l]

TheWriter == [object |-> "csv.writer"]

Emit(sig, text, n) == [sig |-> sig, text |-> text, n |-> n]

NewRecorder ==
    [is_recording |-> FALSE, file_path |-> None, csv_file |-> None,
     csv_writer |-> None, message_count |-> 0, recording_mode |-> "raw",
     selected_signals |-> <<>>]

\* the name datetime.now().strftime(...) gives a recording
AutoName == "can_recording_20240101_120000.csv"

\* lines 75-82: the header row
header_row(mode, selected_signals) ==
    IF mode = "raw"
    THEN <<StrCell("Timestamp"), StrCell("ID"), StrCell("ID_Hex"),
           StrCell("DLC"), StrCell("Data"), StrCell("Extended"),
           StrCell("Error")>>
    ELSE <<StrCell("Timestamp"), StrCell("Message_ID"),
           StrCell("Message_Name")>>
         \o [k \in 1..Len(selected_signals) |-> StrCell(selected_signals[k])]

\* lines 66-68: the attributes assigned before the file is opened
start_assigned(self, output_dir, filename, mode, selected_signals) ==
    [self EXCEPT
       !.file_path = Path(output_dir \o "/"
                          \o (IF filename = None THEN AutoName
                              ELSE filename.str)),
       !.recording_mode = mode,
       !.selected_signals = IF selected_signals = None THEN <<>>
                            ELSE selected_signals.list]

start_failed(self) ==
    [self |-> self, ret |-> FALSE,
     emitted |-> <<Emit("error_occurred", "Failed to start recording", 0)>>]

\* lines 71-90: the file is opened and the header written; fail names the
\* call that raises, if any
start_opened(self, fail) ==
    IF fail = "open" THEN start_failed(self)
    ELSE IF fail = "header"
    THEN start_failed([self EXCEPT !.csv_file = [rows |-> <<>>],
                                   !.csv_writer = TheWriter])
    ELSE [self |-> [self EXCEPT
                      !.csv_file = [rows |-> <<header_row(self.recording_mode,
                                                          self.selected_signals)>>],
                      !.csv_writer = TheWriter,
                      !.message_count = 0,
                      !.is_recording = TRUE],
          ret |-> TRUE,
          emitted |-> <<Emit("recording_started", self.file_path.path, 0)>>]

\* start_recording as it would be without the check of is_recording
start_recording_restarting(self, output_dir, filename, mode, selected_signals, fail) ==
    IF fail = "mkdir" THEN start_failed(self)
    ELSE start_opened(start_assigned(self, output_dir, filename, mode,
                                     selected_signals), fail)

start_recording(self, output_dir, filename, mode, selected_signals, fail) ==
    IF self.is_recording
    THEN [self |-> self, ret |-> FALSE,
          emitted |-> <<Emit("error_occurred",
                             "Recording already in progress", 0)>>]
    ELSE IF fail = "mkdir" THEN start_failed(self)
    ELSE start_opened(start_assigned(self, output_dir, filename, mode,
                                     selected_signals), fail)

\* stop_recording(): csv_file.close() may raise
stop_recording(self, closeOk) ==
    IF ~self.is_recording THEN [self |-> self, ret |-> None, emitted |-> <<>>]
    ELSE IF self.csv_file # None /\ ~closeOk
    THEN [self |-> self, ret |-> None,
          emitted |-> <<Emit("error_occurred", "Error stopping recording", 0)>>]
    ELSE [self |-> [self EXCEPT !.csv_file = None, !.csv_writer = None,
                                !.is_recording = FALSE],
          ret |-> None,
          emitted |-> <<Emit("recording_stopped", "", self.message_count)>>]

\* a can.Message
CanMessage(arbitration_id, data, timestamp) ==
    [arbitration_id |-> arbitration_id, dlc |-> Len(data), data |-> data,
     timestamp |-> timestamp, is_extended_id |-> FALSE,
     is_error_frame |-> FALSE]

HexDigits == <<"0", "1", "2", "3", "4", "5", "6", "7", "8", "9", "A", "B",
               "C", "D", "E", "F">>

\* format(n, 'X')
RECURSIVE Hex(_)
Hex(n) == IF n < 16 THEN HexDigits[n + 1]
          ELSE Hex(n \div 16) \o HexDigits[(n % 16) + 1]

\* data.hex().upper()
RECURSIVE DataHex(_)
DataHex(data) ==
    IF data = <<>> THEN ""
    ELSE HexDigits[(data[1] \div 16) + 1] \o HexDigits[(data[1] % 16) + 1]
         \o DataHex(Tail(data))

\* lines 131-142: the row of a raw message
raw_row(msg, timestamp) ==
    <<IF timestamp # None THEN timestamp ELSE IntCell(msg.timestamp),
      IntCell(msg.arbitration_id), StrCell("0x" \o Hex(msg.arbitration_id)),
      IntCell(msg.dlc), StrCell(DataHex(msg.data)),
      BoolCell(msg.is_extended_id), BoolCell(msg.is_error_frame)>>

\* lines 164-169: the row of a decoded message
decoded_row(self, timestamp, msg_id, msg_name, signals) ==
    <<timestamp, IntCell(msg_id), StrCell(msg_name)>>
    \o [k \in 1..Len(self.selected_signals) |->
          IF self.selected_signals[k] \in DOMAIN signals
          THEN signals[self.selected_signals[k]] ELSE StrCell("")]

\* write_row as it would be with message_count += 1 ahead of writerow
write_row_counting_first(self, row, writeOk) ==
    IF ~writeOk
    THEN [self |-> [self EXCEPT !.message_count = self.message_count + 1],
          ret |-> None, emitted |-> <<>>]
    ELSE [self |-> [self EXCEPT
                      !.csv_file.rows = Append(self.csv_file.rows, row),
                      !.message_count = self.message_count + 1],
          ret |-> None, emitted |-> <<>>]

\* csv_writer.writerow(row) and message_count += 1; a writerow that raises
\* is logged and nothing else happens
write_row(self, row, writeOk) ==
    IF ~writeOk THEN [self |-> self, ret |-> None, emitted |-> <<>>]
    ELSE [self |-> [self EXCEPT
                      !.csv_file.rows = Append(self.csv_file.rows, row),
                      !.message_count = self.message_count + 1],
          ret |-> None, emitted |-> <<>>]

\* record_raw_message as it would be without the check of the mode
record_raw_message_any_mode(self, msg, timestamp, writeOk) ==
    IF ~self.is_recording
    THEN [self |-> self, ret |-> None, emitted |-> <<>>]
    ELSE write_row(self, raw_row(msg, timestamp), writeOk)

record_raw_message(self, msg, timestamp, writeOk) ==
    IF ~self.is_recording \/ self.recording_mode # "raw"
    THEN [self |-> self, ret |-> None, emitted |-> <<>>]
    ELSE write_row(self, raw_row(msg, timestamp), writeOk)

record_decoded_message(self, timestamp, msg_id, msg_name, signals, writeOk) ==
    IF ~self.is_recording \/ self.recording_mode # "decoded"
    THEN [self |-> self, ret |-> None, emitted |-> <<>>]
    ELSE write_row(self, decoded_row(self, timestamp, msg_id, msg_name,
                                     signals), writeOk)

(***************************************************************************)
(* Triggers (src/src/triggers/trigger_system.py).  A TriggerCondition is   *)
(* the record [signal_name, condition_type, threshold, last_value], a      *)
(* Trigger the record [name, logic, conditions, actions, enabled,          *)
(* trigger_count, armed, single_shot] together with receivers, the number  *)
(* of connections of its signal triggered to the manager's slot            *)
(* _on_trigger_fired.  A dict of signal values is a function from the      *)
(* names it holds; a value is a number, IntCell(v), or whatever else the   *)
(* caller put into the dict, and an operation yields exc, "none" or the    *)
(* exception it raised.  Trigger objects live in a heap,                   *)
(* a function from object identities to Trigger records, None where no     *)
(* object exists; the manager's dict triggers is the sequence of the       *)
(* identities it holds, in insertion order, each under its trigger's name. *)
(***************************************************************************)
TriggerCondition(signal_name, condition_type, threshold) ==
    [signal_name |-> signal_name, condition_type |-> condition_type,
     threshold |-> threshold, last_value |-> None]

\* a Python number
IsNumber(x) == "i" \in DOMAIN x

\* abs(a - b) < 1e-6
Close(a, b) == Abs(a - b) * 1000000 < 1

\* lines 74-92: the result of a condition for a number
condition_result(self, value) ==
    CASE self.condition_type = ">" -> value.i > self.threshold.i
      [] self.condition_type = "<" -> value.i < self.threshold.i
      [] self.condition_type = "==" -> Close(value.i, self.threshold.i)
      [] self.condition_type = "!=" -> ~Close(value.i, self.threshold.i)
      [] self.condition_type = ">=" -> value.i >= self.threshold.i
      [] self.condition_type = "<=" -> value.i <= self.threshold.i
      [] self.condition_type = "rising" ->
           /\ self.last_value # None
           /\ self.last_value.i < self.threshold.i
           /\ self.threshold.i <= value.i
      [] self.condition_type = "falling" ->
           /\ self.last_value # None
           /\ self.last_value.i >= self.threshold.i
           /\ self.threshold.i > value.i
      [] self.condition_type = "change" ->
           /\ self.last_value # None
           /\ ~(Abs(value.i - self.last_value.i) * 1000000 <= 1)
      [] OTHER -> FALSE

\* lines 74-92 raise TypeError when an operand that is compared or
\* subtracted is no number; a chained comparison stops at its first false
\* link
condition_raises(self, value) ==
    CASE self.condition_type \in {"rising", "falling"} ->
           /\ self.last_value # None
           /\ IF ~IsNumber(self.last_value) THEN TRUE
              ELSE IF self.condition_type = "rising"
              THEN self.last_value.i < self.threshold.i /\ ~IsNumber(value)
              ELSE self.last_value.i >= self.threshold.i /\ ~IsNumber(value)
      [] self.condition_type = "change" ->
           /\ self.last_value # None
           /\ (~IsNumber(value) \/ ~IsNumber(self.last_value))
      [] OTHER -> ~IsNumber(value)

\* TriggerCondition.evaluate(value): [self, ret, exc]
condition_evaluate(self, value) ==
    IF condition_raises(self, value)
    THEN [self |-> self, ret |-> FALSE, exc |-> "TypeError"]
    ELSE [self |-> [self EXCEPT !.last_value = value],
          ret |-> IF IsNumber(value) THEN condition_result(self, value)
                  ELSE FALSE,
          exc |-> "none"]

\* TriggerCondition.reset()
condition_reset(self) == [self EXCEPT !.last_value = None]

\* Trigger(name, logic)
NewTrigger(name, logic) ==
    [name |-> name, logic |-> logic, conditions |-> <<>>, actions |-> <<>>,
     enabled |-> TRUE, trigger_count |-> 0, armed |-> TRUE,
     single_shot |-> FALSE, receivers |-> 0]

add_condition(self, condition) ==
    [self EXCEPT !.conditions = Append(self.conditions, condition)]

\* the emission triggered(name, signal_values) of a trigger
Triggered(name, signal_values) ==
    [sig |-> "triggered", name |-> name, signal_values |-> signal_values]

\* the emission trigger_fired(name, signal_values) of the manager
TriggerFired(name, signal_values) ==
    [sig |-> "trigger_fired", name |-> name, signal_values |-> signal_values]

NotEvaluated(self) ==
    [self |-> self, ret |-> FALSE, emitted |-> <<>>, results |-> <<>>,
     exc |-> "none"]

\* the loop's step as it would be with an absent signal counting as met
evaluate_condition_absent_met(condition, signal_values) ==
    IF condition.signal_name \notin DOMAIN signal_values
    THEN [self |-> condition, ret |-> TRUE, exc |-> "none"]
    ELSE condition_evaluate(condition, signal_values[condition.signal_name])

\* lines 158-164: one condition of the loop
evaluate_condition(condition, signal_values) ==
    IF condition.signal_name \notin DOMAIN signal_values
    THEN [self |-> condition, ret |-> FALSE, exc |-> "none"]
    ELSE condition_evaluate(condition, signal_values[condition.signal_name])

\* lines 166-170
combined(logic, results) ==
    IF logic = "AND" THEN \A k \in DOMAIN results : results[k]
    ELSE \E k \in DOMAIN results : results[k]

\* lines 172-179: the trigger fires or not
evaluate_triggered(self, results, signal_values) ==
    IF combined(self.logic, results)
    THEN [self |-> [self EXCEPT
                      !.trigger_count = self.trigger_count + 1,
                      !.armed = IF self.single_shot THEN FALSE ELSE @],
          ret |-> TRUE,
          emitted |-> <<Triggered(self.name, signal_values)>>,
          results |-> results, exc |-> "none"]
    ELSE [self |-> self, ret |-> FALSE, emitted |-> <<>>,
          results |-> results, exc |-> "none"]

\* the first condition whose evaluate raised, 0 if none did
RECURSIVE FirstRaised(_, _)
FirstRaised(evaluated, k) ==
    IF k > Len(evaluated) THEN 0
    ELSE IF evaluated[k].exc # "none" THEN k
    ELSE FirstRaised(evaluated, k + 1)

\* lines 158-164 left by the exception of the k-th condition: the
\* conditions before it were evaluated
evaluate_raised(self, evaluated, k) ==
    [self |-> [self EXCEPT
                 !.conditions = [j \in DOMAIN evaluated |->
                                   IF j < k THEN evaluated[j].self
                                   ELSE self.conditions[j]]],
     ret |-> FALSE, emitted |-> <<>>, results |-> <<>>,
     exc |-> evaluated[k].exc]

\* lines 157-179, evaluated the conditions' calls
evaluate_evaluated(self, evaluated, signal_values) ==
    IF FirstRaised(evaluated, 1) # 0
    THEN evaluate_raised(self, evaluated, FirstRaised(evaluated, 1))
    ELSE evaluate_triggered(
             [self EXCEPT !.conditions = [k \in DOMAIN evaluated |-> evaluated[k].self]],
             [k \in DOMAIN evaluated |-> evaluated[k].ret], signal_values)

\* Trigger.evaluate as it would be without the check of armed
trigger_evaluate_rearming(self, signal_values) ==
    IF ~self.enabled \/ self.conditions = <<>> THEN NotEvaluated(self)
    ELSE evaluate_evaluated(
             self,
             [k \in DOMAIN self.conditions |->
                evaluate_condition(self.conditions[k], signal_values)],
             signal_values)

\* Trigger.evaluate(signal_values): [self, ret, emitted, results, exc]
trigger_evaluate(self, signal_values) ==
    IF ~self.enabled \/ ~self.armed THEN NotEvaluated(self)
    ELSE IF self.conditions = <<>> THEN NotEvaluated(self)
    ELSE evaluate_evaluated(
             self,
             [k \in DOMAIN self.conditions |->
                evaluate_condition(self.conditions[k], signal_values)],
             signal_values)

\* Trigger.reset()
trigger_reset(self) ==
    [self EXCEPT
       !.conditions = [k \in DOMAIN self.conditions |->
                         condition_reset(self.conditions[k])],
       !.armed = TRUE,
       !.trigger_count = 0]

\* Trigger.set_enabled(enabled)
set_enabled(self, enabled) == [self EXCEPT !.enabled = enabled]

\* TriggerManager()
NewTriggerManager == [triggers |-> <<>>]

\* the position of name in the dict, 0 if it is no key
RECURSIVE KeyIndex(_, _, _, _)
KeyIndex(triggers, heap, name, i) ==
    IF i > Len(triggers) THEN 0
    ELSE IF heap[triggers[i]].name = name THEN i
    ELSE KeyIndex(triggers, heap, name, i + 1)

\* self.triggers[name] = trigger
dict_set(triggers, i, t) ==
    IF i = 0 THEN Append(triggers, t) ELSE [triggers EXCEPT ![i] = t]

\* del self.triggers[name]
dict_del(triggers, i) ==
    [k \in 1..(Len(triggers) - 1) |->
       IF k < i THEN triggers[k] ELSE triggers[k + 1]]

\* TriggerManager.add_trigger(trigger), trigger being the object t
add_trigger(self, heap, t) ==
    [self |-> [self EXCEPT
                 !.triggers = dict_set(self.triggers,
                                       KeyIndex(self.triggers, heap,
                                                heap[t].name, 1), t)],
     heap |-> [heap EXCEPT ![t].receivers = heap[t].receivers + 1]]

\* TriggerManager.remove_trigger(name)
remove_trigger(self, heap, name) ==
    IF KeyIndex(self.triggers, heap, name, 1) = 0 THEN self
    ELSE [self EXCEPT
            !.triggers = dict_del(self.triggers,
                                  KeyIndex(self.triggers, heap, name, 1))]

\* _on_trigger_fired, called once for each connection of an emission
RECURSIVE on_trigger_fired(_, _)
on_trigger_fired(emission, receivers) ==
    IF receivers = 0 THEN <<>>
    ELSE <<TriggerFired(emission.name, emission.signal_values)>>
         \o on_trigger_fired(emission, receivers - 1)

\* what the signals of one trigger.evaluate give: triggered, and
\* trigger_fired from each connected slot
emissions(r) ==
    IF r.emitted = <<>> THEN <<>>
    ELSE r.emitted \o on_trigger_fired(r.emitted[1], r.self.receivers)

\* evaluate_all from the i-th trigger of the dict on; out is
\* [heap, emitted, results, exc] so far; the loop ends with the first
\* evaluate that raises
RECURSIVE evaluate_from(_, _, _, _)
evaluate_step(triggers, signal_values, i, out, r) ==
    evaluate_from(triggers, signal_values,
                  IF r.exc # "none" THEN Len(triggers) + 1 ELSE i + 1,
                  [heap |-> [out.heap EXCEPT ![triggers[i]] = r.self],
                   emitted |-> out.emitted \o emissions(r),
                   results |-> Append(out.results,
                                      [t |-> triggers[i], ret |-> r.ret,
                                       results |-> r.results]),
                   exc |-> r.exc])

evaluate_from(triggers, signal_values, i, out) ==
    IF i > Len(triggers) THEN out
    ELSE evaluate_step(triggers, signal_values, i, out,
                       trigger_evaluate(out.heap[triggers[i]], signal_values))

\* TriggerManager.evaluate_all(signal_values)
evaluate_all(self, heap, signal_values) ==
    evaluate_from(self.triggers, signal_values, 1,
                  [heap |-> heap, emitted |-> <<>>, results |-> <<>>,
                   exc |-> "none"])

\* TriggerManager.reset_all()
reset_all(self, heap) ==
    [t \in DOMAIN heap |->
       IF \E k \in DOMAIN self.triggers : self.triggers[k] = t
       THEN trigger_reset(heap[t]) ELSE heap[t]]

\* TriggerManager.enable_trigger(name, enabled)
enable_trigger(self, heap, name, enabled) ==
    IF KeyIndex(self.triggers, heap, name, 1) = 0 THEN heap
    ELSE [heap EXCEPT
            ![self.triggers[KeyIndex(self.triggers, heap, name, 1)]]
               = set_enabled(@, enabled)]

(***************************************************************************)
(* MainWindow (src/src/gui/main_window.py).  The window is the record      *)
(* self = [selected_signals, signal_values, message_count]; its parser,    *)
(* recorder and trigger manager are the objects modelled above.            *)
(***************************************************************************)
NewMainWindow ==
    [selected_signals |-> <<>>, signal_values |-> <<>>, message_count |-> 0]

\* time.time()
Now == IntCell(5)

\* f"{msg.arbitration_id:X}_{signal_name}"
full_signal_name(arbitration_id, signal_name) ==
    Hex(arbitration_id) \o "_" \o signal_name

\* `if decoded:` - neither None nor an empty dict
Truthy(decoded) == IF decoded = None THEN FALSE ELSE DOMAIN decoded # {}

\* lines 410-413: signal_values[full_signal_name] = value for each item
store_signal_values(signal_values, arbitration_id, decoded) ==
    [k \in DOMAIN signal_values
           \cup {full_signal_name(arbitration_id, n) : n \in DOMAIN decoded} |->
       IF \E n \in DOMAIN decoded : full_signal_name(arbitration_id, n) = k
       THEN decoded[CHOOSE n \in DOMAIN decoded :
                       full_signal_name(arbitration_id, n) = k]
       ELSE signal_values[k]]

\* lines 400-402: the raw row, in raw recording mode
received_raw(rec, msg, writeOk) ==
    IF rec.is_recording /\ rec.recording_mode = "raw"
    THEN record_raw_message(rec, msg, Now, writeOk).self
    ELSE rec

\* lines 420-426: the decoded row, in decoded recording mode
received_decoded_row(parser, rec, msg, decoded, writeOk) ==
    IF rec.is_recording /\ rec.recording_mode = "decoded"
    THEN record_decoded_message(
             rec, Now, msg.arbitration_id,
             IF get_message_by_id(parser, msg.arbitration_id).val # None
             THEN get_message_by_id(parser, msg.arbitration_id).val.name
             ELSE "0x" \o Hex(msg.arbitration_id),
             decoded, writeOk).self
    ELSE rec

\* what the handler leaves when it has run to the call of evaluate_all,
\* whose outcome is ev; an exception of evaluate_all leaves the handler
received_evaluated(self, rec, decoded, ev) ==
    [self |-> self, recorder |-> rec, heap |-> ev.heap, decoded |-> decoded,
     evaluated |-> TRUE, emitted |-> ev.emitted, results |-> ev.results,
     exc |-> ev.exc]

\* what the handler leaves when it has not reached evaluate_all
received_undecoded(self, rec, heap, decoded) ==
    [self |-> self, recorder |-> rec, heap |-> heap, decoded |-> decoded,
     evaluated |-> FALSE, emitted |-> <<>>, results |-> <<>>, exc |-> "none"]

\* lines 408-429, the frame being decoded to a non-empty dict
received_stored(self, parser, rec, mgr, heap, msg, decoded, writeOk) ==
    received_evaluated(
        self, received_decoded_row(parser, rec, msg, decoded, writeOk),
        decoded, evaluate_all(mgr, heap, self.signal_values))

\* lines 404-408: the frame is decoded if a database is loaded; decoded is
\* what decode_message returned, NotCalled without a database
received_with(self, parser, rec, mgr, heap, msg, decoded, writeOk) ==
    IF is_loaded(parser) /\ Truthy(decoded)
    THEN received_stored(
             [self EXCEPT !.signal_values =
                store_signal_values(@, msg.arbitration_id, decoded)],
             parser, rec, mgr, heap, msg, decoded, writeOk)
    ELSE received_undecoded(self, rec, heap, decoded)

\* on_message_received as it would be with evaluate_all outside the
\* `if decoded:` block
on_message_received_always_evaluating(self, parser, rec, mgr, heap, msg, writeOk) ==
    received_evaluated(
        [self EXCEPT !.message_count = @ + 1],
        received_raw(rec, msg, writeOk),
        decode_message(parser, msg.arbitration_id, msg.data).val,
        evaluate_all(mgr, heap, self.signal_values))

\* MainWindow.on_message_received(msg); writeOk: the writerow of this call,
\* if there is one, does not raise
on_message_received(self, parser, rec, mgr, heap, msg, writeOk) ==
    received_with([self EXCEPT !.message_count = @ + 1], parser,
                  received_raw(rec, msg, writeOk), mgr, heap, msg,
                  IF is_loaded(parser)
                  THEN decode_message(parser, msg.arbitration_id, msg.data).val
                  ELSE None,
                  writeOk)

(***************************************************************************)
(* Inputs of the parser's operations.                                      *)
(***************************************************************************)
MaxDataLen == 2

Bytes == {1, 29, 255}

RECURSIVE FramesOfLen(_)
FramesOfLen(n) ==
    IF n = 0 THEN {<<>>}
    ELSE {<<b>> \o f : b \in Bytes, f \in FramesOfLen(n - 1)}

Frames == UNION {FramesOfLen(n) : n \in 0..MaxDataLen}

\* 0x005 is in no database
MsgIds == {5, 16, 256, 512, 768, 1024}

Names == {"Speed", "Temp", "Bogus"}

Values == {PyF(FFromInt(10)), PyF(FFromInt(300)), BadValue}

ValueMaps == UNION {[D -> Values] : D \in SUBSET Names}

\* "Nope" names no message of any database
MsgNames == {"Engine", "Status", "Brake", "Nope"}

(***************************************************************************)
(* State.  db, file_path and file_type are the parser's attributes; last   *)
(* records the most recent call of the parser: the operation, its          *)
(* arguments, the value returned, the exception that reached the caller    *)
(* ("none" if the call returned) and the error line logged by              *)
(* load_database.  bus, notifier and is_connected are the manager's        *)
(* attributes, open_buses counts the buses opened and not shut down,       *)
(* can_last records the call of the manager made by the latest step, if    *)
(* any.  message_combo, signal_table, periodic_check, periodic_timer and   *)
(* send_once_btn are the sender's widgets, ui records the send of the      *)
(* latest step, if any: what send_once returned, what encode_message       *)
(* returned to it and whether it called send_message.                      *)
(* loaded_dbc_files is the configuration panel's table of   *)
(* loaded files.  loader and decoder are the threads of a reload that      *)
(* runs concurrently with a decode; codec is the state of a raw round      *)
(* trip.  recorder is the DataRecorder object and rec_last the call of the *)
(* recorder made by the latest step, if any.  trigger_objs is the heap of   *)
(* Trigger objects, trigger_manager the TriggerManager, delivered the      *)
(* latest value the evaluate_all calls gave each signal (None before the   *)
(* first call and after reset_all), trig_last the call of the trigger      *)
(* system made by the latest step, if any.                                 *)
(***************************************************************************)
VARIABLES db, file_path, file_type, last,
          bus, notifier, interface_type, is_connected, open_buses, can_last,
          message_combo, signal_table, periodic_check, periodic_timer,
          send_once_btn, loaded_dbc_files, ui,
          loader, decoder, codec,
          recorder, rec_last,
          trigger_objs, trigger_manager, delivered, trig_last,
          window, win_last

parserVars == <<db, file_path, file_type>>

managerAttrs == <<bus, notifier, interface_type, is_connected, open_buses>>

managerVars == <<managerAttrs, can_last>>

senderWidgets == <<message_combo, signal_table, periodic_check,
                   periodic_timer, send_once_btn, loaded_dbc_files>>

senderVars == <<senderWidgets, ui>>

reloadVars == <<loader, decoder>>

codecVars == <<codec>>

recorderVars == <<recorder, rec_last>>

triggerVars == <<trigger_objs, trigger_manager, delivered, trig_last>>

mainVars == <<window, win_last>>

vars == <<parserVars, last, managerVars, senderVars, reloadVars, codecVars,
          recorderVars, triggerVars, mainVars>>

Self == [db |-> db, file_path |-> file_path, file_type |-> file_type]

Call(op, path, msg_id, data, r, log) ==
    [op |-> op, path |-> path, msg_id |-> msg_id, data |-> data,
     ret |-> r.val, exc |-> r.exc, log |-> log]

NoCall == Call("none", "", 0, <<>>, Ret(None), "")

ParserInit ==
    /\ db = NewParser.db
    /\ file_path = NewParser.file_path
    /\ file_type = NewParser.file_type
    /\ last = NoCall

\* self.db_parser.load_database(file_path)
LoadDatabase(path) ==
    LET r == load_database(Self, path)
    IN  /\ db' = r.self.db
        /\ file_path' = r.self.file_path
        /\ file_type' = r.self.file_type
        /\ last' = Call("load_database", path, 0, <<>>, Ret(r.ret), r.log)
        /\ UNCHANGED <<managerVars, senderVars, reloadVars, codecVars,
                   recorderVars,
                   triggerVars, mainVars>>

\* self.db_parser.decode_message(msg_id, data)
DecodeMessage(msg_id, data) ==
    /\ last' = Call("decode_message", "", msg_id, data,
                    decode_message(Self, msg_id, data), "")
    /\ UNCHANGED <<parserVars, managerVars, senderVars, reloadVars, codecVars,
                   recorderVars,
                   triggerVars, mainVars>>

\* self.db_parser.encode_message(msg_id, data)
EncodeMessage(msg_id, data) ==
    /\ last' = Call("encode_message", "", msg_id, data,
                    encode_message(Self, msg_id, data), "")
    /\ UNCHANGED <<parserVars, managerVars, senderVars, reloadVars, codecVars,
                   recorderVars,
                   triggerVars, mainVars>>

\* self.db_parser.get_messages()
GetMessages ==
    /\ last' = Call("get_messages", "", 0, <<>>, Ret(get_messages(Self)), "")
    /\ UNCHANGED <<parserVars, managerVars, senderVars, reloadVars, codecVars,
                   recorderVars,
                   triggerVars, mainVars>>

\* self.db_parser.is_loaded()
IsLoaded ==
    /\ last' = Call("is_loaded", "", 0, <<>>, Ret(is_loaded(Self)), "")
    /\ UNCHANGED <<parserVars, managerVars, senderVars, reloadVars, codecVars,
                   recorderVars,
                   triggerVars, mainVars>>

\* self.db_parser.get_message_by_id(msg_id)
GetMessageById(msg_id) ==
    /\ last' = Call("get_message_by_id", "", msg_id, <<>>,
                    get_message_by_id(Self, msg_id), "")
    /\ UNCHANGED <<parserVars, managerVars, senderVars, reloadVars, codecVars,
                   recorderVars,
                   triggerVars, mainVars>>

\* self.db_parser.get_message_by_name(name)
GetMessageByName(name) ==
    /\ last' = [op |-> "get_message_by_name", path |-> "", msg_id |-> 0,
                data |-> <<>>, ret |-> get_message_by_name(Self, name).val,
                exc |-> get_message_by_name(Self, name).exc, log |-> "",
                name |-> name]
    /\ UNCHANGED <<parserVars, managerVars, senderVars, reloadVars, codecVars,
                   recorderVars,
                   triggerVars, mainVars>>

\* self.db_parser.get_signals_for_message(msg_id)
GetSignalsForMessage(msg_id) ==
    /\ last' = Call("get_signals_for_message", "", msg_id, <<>>,
                    Ret(get_signals_for_message(Self, msg_id)), "")
    /\ UNCHANGED <<parserVars, managerVars, senderVars, reloadVars, codecVars,
                   recorderVars,
                   triggerVars, mainVars>>

\* self.db_parser.get_all_signals()
GetAllSignals ==
    /\ last' = Call("get_all_signals", "", 0, <<>>, get_all_signals(Self), "")
    /\ UNCHANGED <<parserVars, managerVars, senderVars, reloadVars, codecVars,
                   recorderVars,
                   triggerVars, mainVars>>

(***************************************************************************)
(* CANInterfaceManager (src/src/can_interface/can_manager.py).  A manager  *)
(* is the record [bus, notifier, interface_type, is_connected,             *)
(* open_buses]: interface_type is a string wrapped in a record, open_buses *)
(* counts the buses that were opened and not shut down; channel and        *)
(* bitrate are assigned together with interface_type.  Whether a call of   *)
(* the can library succeeds is an input of each operation.  Each operation *)
(* yields [mgr, ret, emitted]: the manager afterwards, the value returned  *)
(* and the Qt signals emitted, in order.                                   *)
(***************************************************************************)
TheBus == [object |-> "can.Bus"]

TheNotifier == [object |-> "can.Notifier"]

NewManager ==
    [bus |-> None, notifier |-> None, interface_type |-> None,
     is_connected |-> FALSE, open_buses |-> 0]

\* disconnect as it would be if self.bus were cleared before bus.shutdown()
\* is called
disconnect_clearing_first(mgr, stopOk, shutdownOk) ==
    IF ~mgr.is_connected THEN [mgr |-> mgr, ret |-> None, emitted |-> <<>>]
    ELSE IF mgr.notifier # None /\ ~stopOk
    THEN [mgr |-> mgr, ret |-> None, emitted |-> <<"error_occurred">>]
    ELSE IF mgr.bus # None /\ ~shutdownOk
    THEN [mgr |-> [mgr EXCEPT !.notifier = None, !.bus = None], ret |-> None,
          emitted |-> <<"error_occurred">>]
    ELSE [mgr |-> [mgr EXCEPT !.notifier = None, !.bus = None,
                              !.is_connected = FALSE,
                              !.open_buses = IF mgr.bus # None
                                             THEN mgr.open_buses - 1
                                             ELSE mgr.open_buses],
          ret |-> None,
          emitted |-> <<"connection_status_changed(False)">>]

\* disconnect(): notifier.stop() and bus.shutdown() may raise
disconnect(mgr, stopOk, shutdownOk) ==
    IF ~mgr.is_connected THEN [mgr |-> mgr, ret |-> None, emitted |-> <<>>]
    ELSE IF mgr.notifier # None /\ ~stopOk
    THEN [mgr |-> mgr, ret |-> None, emitted |-> <<"error_occurred">>]
    ELSE IF mgr.bus # None /\ ~shutdownOk
    THEN [mgr |-> [mgr EXCEPT !.notifier = None], ret |-> None,
          emitted |-> <<"error_occurred">>]
    ELSE [mgr |-> [mgr EXCEPT !.notifier = None, !.bus = None,
                              !.is_connected = FALSE,
                              !.open_buses = IF mgr.bus # None
                                             THEN mgr.open_buses - 1
                                             ELSE mgr.open_buses],
          ret |-> None,
          emitted |-> <<"connection_status_changed(False)">>]

\* connect(interface, channel, bitrate): can.Bus(...) and can.Notifier(...)
\* may raise
connect(mgr, interface, stopOk, shutdownOk, busOk, notifierOk) ==
    LET d  == IF mgr.is_connected THEN disconnect(mgr, stopOk, shutdownOk)
              ELSE [mgr |-> mgr, ret |-> None, emitted |-> <<>>]
        m1 == d.mgr
        failure == <<"error_occurred", "connection_status_changed(False)">>
    IN  IF ~busOk
        THEN [mgr |-> m1, ret |-> FALSE, emitted |-> d.emitted \o failure]
        ELSE LET m2 == [m1 EXCEPT !.bus = TheBus,
                                  !.open_buses = m1.open_buses + 1]
             IN  IF ~notifierOk
                 THEN [mgr |-> m2, ret |-> FALSE,
                       emitted |-> d.emitted \o failure]
                 ELSE [mgr |-> [m2 EXCEPT !.notifier = TheNotifier,
                                          !.interface_type = Str(interface),
                                          !.is_connected = TRUE],
                       ret |-> TRUE,
                       emitted |-> d.emitted
                                   \o <<"connection_status_changed(True)">>]

\* send_message as it would be if a failed send dropped the connection
send_message_disconnecting(mgr, sendOk) ==
    IF ~mgr.is_connected \/ mgr.bus = None
    THEN [mgr |-> mgr, ret |-> FALSE, emitted |-> <<"error_occurred">>,
          called |-> FALSE, sent |-> FALSE]
    ELSE IF sendOk
    THEN [mgr |-> mgr, ret |-> TRUE, emitted |-> <<>>, called |-> TRUE,
          sent |-> TRUE]
    ELSE [mgr |-> [mgr EXCEPT !.is_connected = FALSE], ret |-> FALSE,
          emitted |-> <<"error_occurred">>, called |-> TRUE, sent |-> FALSE]

\* send_message(msg): bus.send(msg) may raise; called tells whether
\* bus.send was called, sent whether it was called and returned
send_message(mgr, sendOk) ==
    IF ~mgr.is_connected \/ mgr.bus = None
    THEN [mgr |-> mgr, ret |-> FALSE, emitted |-> <<"error_occurred">>,
          called |-> FALSE, sent |-> FALSE]
    ELSE IF sendOk
    THEN [mgr |-> mgr, ret |-> TRUE, emitted |-> <<>>, called |-> TRUE,
          sent |-> TRUE]
    ELSE [mgr |-> mgr, ret |-> FALSE, emitted |-> <<"error_occurred">>,
          called |-> TRUE, sent |-> FALSE]

\* what can.detect_available_configs(interfaces=[...]) may do: raise, or
\* return a list of configurations, each a dict that names a channel unless
\* the interface's detection leaves the key out
Config(channel) == [interface |-> "", channel |-> channel]

Detections ==
    {Raise("ImportError", ""), Ret(<<>>), Ret(<<Config("ch1")>>),
     Ret(<<Config("ch1"), Config("ch2")>>), Ret(<<[interface |-> ""]>>)}

\* lines 154-159: whether the try block of one interface assigns its key
\* (the list comprehension raises KeyError for a configuration without
\* 'channel')
detected(configs) ==
    /\ configs.exc = "none"
    /\ configs.val # <<>>
    /\ \A i \in 1..Len(configs.val) : "channel" \in DOMAIN configs.val[i]

channels(configs) == [i \in 1..Len(configs.val) |-> configs.val[i].channel]

HardwareInterfaces == {"pcan", "ixxat", "socketcan"}

\* get_available_interfaces as it would be without the try blocks
get_available_interfaces_propagating(configs) ==
    IF \E k \in HardwareInterfaces : configs[k].exc # "none"
    THEN Raise("ImportError", "")
    ELSE IF \E k \in HardwareInterfaces :
               configs[k].val # <<>> /\ ~detected(configs[k])
    THEN Raise("KeyError", "channel")
    ELSE Ret([k \in {i \in HardwareInterfaces : detected(configs[i])}
                     \cup {"virtual"} |->
                IF k = "virtual" THEN <<"vcan0", "vcan1">>
                ELSE channels(configs[k])])

\* get_available_interfaces(), configs[k] being what the detection of
\* interface k does: the dict returned
get_available_interfaces(configs) ==
    Ret([k \in {i \in HardwareInterfaces : detected(configs[i])}
               \cup {"virtual"} |->
           IF k = "virtual" THEN <<"vcan0", "vcan1">>
           ELSE channels(configs[k])])

(***************************************************************************)
(* MessageSenderWidget (src/src/gui/message_sender.py).  message_combo is  *)
(* [items, index, enabled]: the items are [name, id] pairs and index is    *)
(* the current item, 0 when there is none.  signal_table holds one row     *)
(* [name, value] per signal of the selected message, value being the       *)
(* number in the row's spin box.                                           *)
(***************************************************************************)
EmptyCombo == [items |-> <<>>, index |-> 0, enabled |-> TRUE]

\* message_combo.currentData(): the id of the current item, or None
currentData(combo) ==
    IF combo.index = 0 THEN None ELSE [id |-> combo.items[combo.index].id]

\* the value a spin box with range [lo, hi] takes when set to v
SpinValue(v, lo, hi) ==
    IF PyLess(v, lo) THEN PyF(ToF(lo))
    ELSE IF PyLess(hi, v) THEN PyF(ToF(hi))
    ELSE v

\* on_message_selected: the table after the combo's current item changed
on_message_selected(self, combo, table) ==
    IF combo.index = 0 \/ self.db = None THEN table
    ELSE LET signals == get_signals_for_message(self, currentData(combo).id)
         IN  [i \in 1..Len(signals) |->
                [name |-> signals[i].name,
                 value |-> SpinValue(PyF(FZero), signals[i].minimum,
                                     signals[i].maximum),
                 minimum |-> signals[i].minimum,
                 maximum |-> signals[i].maximum]]

\* update_database: [combo, table] after the message list was refreshed
update_database(self, combo, table) ==
    IF self.db = None THEN [combo |-> combo, table |-> table]
    ELSE LET messages == get_messages(self)
             c == [combo EXCEPT
                     !.items = [i \in 1..Len(messages) |->
                                  [name |-> messages[i].name,
                                   id |-> messages[i].id]],
                     !.index = IF Len(messages) > 0 THEN 1 ELSE 0]
         IN  [combo |-> c, table |-> on_message_selected(self, c, table)]

\* get_signal_values
get_signal_values(table) ==
    [n \in {table[i].name : i \in 1..Len(table)} |->
        table[CHOOSE i \in 1..Len(table) : table[i].name = n].value]

NotCalled == [called |-> FALSE]

\* send_once as it would be without the check of the encoded data
send_once_unchecked(self, mgr, combo, table, sendOk) ==
    IF ~mgr.is_connected
    THEN [ret |-> FALSE, encoded |-> NotCalled, send |-> NotCalled]
    ELSE IF currentData(combo) = None
    THEN [ret |-> FALSE, encoded |-> NotCalled, send |-> NotCalled]
    ELSE [ret |-> send_message(mgr, sendOk).ret,
          encoded |-> encode_message(self, currentData(combo).id,
                                     get_signal_values(table)).val,
          send |-> send_message(mgr, sendOk)]

\* lines 201-209: send_once after encode_message returned data
send_encoded(mgr, data, sendOk) ==
    IF data = None
    THEN [ret |-> FALSE, encoded |-> data, send |-> NotCalled]
    ELSE [ret |-> send_message(mgr, sendOk).ret, encoded |-> data,
          send |-> send_message(mgr, sendOk)]

\* send_once: [ret, encoded, send], encoded being what encode_message
\* returned and send the outcome of send_message, each NotCalled when the
\* call was not reached
send_once(self, mgr, combo, table, sendOk) ==
    IF ~mgr.is_connected
    THEN [ret |-> FALSE, encoded |-> NotCalled, send |-> NotCalled]
    ELSE IF currentData(combo) = None
    THEN [ret |-> FALSE, encoded |-> NotCalled, send |-> NotCalled]
    ELSE send_encoded(mgr, encode_message(self, currentData(combo).id,
                                          get_signal_values(table)).val,
                      sendOk)

(***************************************************************************)
(* The manager and the sender as state machines.  SpecManager calls the    *)
(* manager directly: connect, disconnect, send_message and                 *)
(* get_available_interfaces.                                               *)
(***************************************************************************)
Mgr == [bus |-> bus, notifier |-> notifier, interface_type |-> interface_type,
        is_connected |-> is_connected, open_buses |-> open_buses]

MaxOpenBuses == 2

\* the paths offered by the file dialogs
GuiPaths == {"a.dbc", "b.dbc", "bad.dbc"}

\* the numbers typed into the spin boxes
SpinInputs == {PyF(FFromInt(10))}

\* the interface types connect is called with
Interfaces == {"pcan", "virtual"}

\* the interface picked in the connection dialog
DialogInterface == "pcan"

NoCanCall == [op |-> "none", ret |-> None, emitted |-> <<>>]

NoSend == [op |-> "none", ret |-> FALSE, encoded |-> NotCalled,
           send |-> FALSE]

ManagerInit ==
    /\ bus = NewManager.bus
    /\ notifier = NewManager.notifier
    /\ interface_type = NewManager.interface_type
    /\ is_connected = NewManager.is_connected
    /\ open_buses = NewManager.open_buses
    /\ can_last = NoCanCall

SenderInit ==
    /\ message_combo = EmptyCombo
    /\ signal_table = <<>>
    /\ periodic_check = FALSE
    /\ periodic_timer = FALSE
    /\ send_once_btn = TRUE
    /\ loaded_dbc_files = {}
    /\ ui = NoSend

SetManager(m) ==
    /\ bus' = m.bus
    /\ notifier' = m.notifier
    /\ interface_type' = m.interface_type
    /\ is_connected' = m.is_connected
    /\ open_buses' = m.open_buses

\* can_manager.connect(...)
Connect(interface, stopOk, shutdownOk, busOk, notifierOk) ==
    LET r == connect(Mgr, interface, stopOk, shutdownOk, busOk, notifierOk)
    IN  /\ r.mgr.open_buses <= MaxOpenBuses
        /\ SetManager(r.mgr)
        /\ can_last' = [op |-> "connect", ret |-> [value |-> r.ret],
                        emitted |-> r.emitted, interface |-> interface]
        /\ ui' = NoSend
        /\ UNCHANGED <<parserVars, last, senderWidgets, reloadVars, codecVars,
                   recorderVars,
                   triggerVars, mainVars>>

\* can_manager.disconnect()
Disconnect(stopOk, shutdownOk) ==
    LET r == disconnect(Mgr, stopOk, shutdownOk)
    IN  /\ SetManager(r.mgr)
        /\ can_last' = [op |-> "disconnect", ret |-> None,
                        emitted |-> r.emitted]
        /\ ui' = NoSend
        /\ UNCHANGED <<parserVars, last, senderWidgets, reloadVars, codecVars,
                   recorderVars,
                   triggerVars, mainVars>>

\* can_manager.send_message(msg)
SendMessage(sendOk) ==
    LET r == send_message(Mgr, sendOk)
    IN  /\ SetManager(r.mgr)
        /\ can_last' = [op |-> "send_message", ret |-> [value |-> r.ret],
                        emitted |-> r.emitted, called |-> r.called,
                        sent |-> r.sent]
        /\ ui' = NoSend
        /\ UNCHANGED <<parserVars, last, senderWidgets, reloadVars, codecVars,
                   recorderVars,
                   triggerVars, mainVars>>

\* CANInterfaceManager.get_available_interfaces()
GetAvailableInterfaces(pcan, ixxat, socketcan) ==
    LET configs == [pcan |-> pcan, ixxat |-> ixxat, socketcan |-> socketcan]
        r == get_available_interfaces(configs)
    IN  /\ can_last' = [op |-> "get_available_interfaces",
                        ret |-> [value |-> r.val], exc |-> r.exc,
                        emitted |-> <<>>, configs |-> configs]
        /\ ui' = NoSend
        /\ UNCHANGED <<parserVars, last, managerAttrs, senderWidgets,
                       reloadVars, codecVars,
                   recorderVars,
                   triggerVars, mainVars>>

LoadParser(r) ==
    /\ db' = r.self.db
    /\ file_path' = r.self.file_path
    /\ file_type' = r.self.file_type

\* ConfigurationPanel.add_dbc_file: a file that is not yet in the table is
\* loaded, entered in the table and announced by dbc_loaded, on which the
\* main window refreshes the sender's message list
AddDbcFile(path) ==
    LET r == load_database(Self, path)
        u == update_database(r.self, message_combo, signal_table)
    IN  /\ path \notin loaded_dbc_files
        /\ LoadParser(r)
        /\ loaded_dbc_files' = IF r.ret THEN loaded_dbc_files \cup {path}
                               ELSE loaded_dbc_files
        /\ message_combo' = IF r.ret THEN u.combo ELSE message_combo
        /\ signal_table' = IF r.ret THEN u.table ELSE signal_table
        /\ can_last' = NoCanCall
        /\ ui' = NoSend
        /\ UNCHANGED <<last, managerAttrs, periodic_check, periodic_timer,
                       send_once_btn, reloadVars, codecVars,
                   recorderVars,
                   triggerVars, mainVars>>

\* ConfigurationPanel.reload_selected_dbc: the file of the selected row is
\* loaded again; the sender is not told
ReloadSelectedDbc(path) ==
    /\ path \in loaded_dbc_files
    /\ LoadParser(load_database(Self, path))
    /\ can_last' = NoCanCall
    /\ ui' = NoSend
    /\ UNCHANGED <<last, managerAttrs, senderWidgets, reloadVars, codecVars,
                   recorderVars,
                   triggerVars, mainVars>>

\* the user picks item i of the message list
SelectMessage(i) ==
    /\ message_combo.enabled
    /\ i \in 1..Len(message_combo.items)
    /\ i # message_combo.index
    /\ message_combo' = [message_combo EXCEPT !.index = i]
    /\ signal_table' = on_message_selected(Self, message_combo', signal_table)
    /\ can_last' = NoCanCall
    /\ ui' = NoSend
    /\ UNCHANGED <<parserVars, last, managerAttrs, periodic_check,
                   periodic_timer, send_once_btn, loaded_dbc_files,
                   reloadVars, codecVars,
                   recorderVars,
                   triggerVars, mainVars>>

\* the user types v into the spin box of a row
SetValue(row, v) ==
    /\ row \in 1..Len(signal_table)
    /\ signal_table' =
          [signal_table EXCEPT ![row].value =
              SpinValue(v, signal_table[row].minimum, signal_table[row].maximum)]
    /\ can_last' = NoCanCall
    /\ ui' = NoSend
    /\ UNCHANGED <<parserVars, last, managerAttrs, message_combo,
                   periodic_check, periodic_timer, send_once_btn,
                   loaded_dbc_files, reloadVars, codecVars,
                   recorderVars,
                   triggerVars, mainVars>>

\* what a run of send_once leaves in ui and can_last
Sending(op, r) ==
    /\ ui' = [op |-> op, ret |-> r.ret, encoded |-> r.encoded,
              send |-> r.send # NotCalled]
    /\ can_last' = IF r.send = NotCalled THEN NoCanCall
                   ELSE [op |-> "send_message", ret |-> [value |-> r.send.ret],
                         emitted |-> r.send.emitted]

\* the Send Once button
SendOnce(sendOk) ==
        /\ send_once_btn
        /\ Sending("send_once",
                   send_once(Self, Mgr, message_combo, signal_table, sendOk))
        /\ UNCHANGED <<parserVars, last, managerAttrs, senderWidgets,
                       reloadVars, codecVars,
                   recorderVars,
                   triggerVars, mainVars>>

\* toggle_periodic as it would be without the checks of the connection and
\* of the selected message
toggle_periodic_unchecked(mgr, combo, enabled) ==
    IF enabled THEN [check |-> TRUE, timer |-> TRUE, controls |-> FALSE]
    ELSE [check |-> FALSE, timer |-> FALSE, controls |-> TRUE]

\* toggle_periodic(enabled), the slot of the check box: [check, timer,
\* controls], controls being the enabled state of the Send Once button
\* and of the message list
toggle_periodic(mgr, combo, enabled) ==
    IF enabled
    THEN IF ~mgr.is_connected \/ currentData(combo) = None
         THEN \* setChecked(False) runs the slot again with enabled = False
              [check |-> FALSE, timer |-> FALSE, controls |-> TRUE]
         ELSE [check |-> TRUE, timer |-> TRUE, controls |-> FALSE]
    ELSE [check |-> FALSE, timer |-> FALSE, controls |-> TRUE]

\* the user clicks the Send Periodically check box
TogglePeriodic ==
    LET r == toggle_periodic(Mgr, message_combo, ~periodic_check)
    IN  /\ periodic_check' = r.check
        /\ periodic_timer' = r.timer
        /\ send_once_btn' = r.controls
        /\ message_combo' = [message_combo EXCEPT !.enabled = r.controls]
        /\ can_last' = NoCanCall
        /\ ui' = NoSend
        /\ UNCHANGED <<parserVars, last, managerAttrs, signal_table,
                       loaded_dbc_files, reloadVars, codecVars,
                   recorderVars,
                   triggerVars, mainVars>>

\* send_periodic_message, the slot of the timer
SendPeriodicMessage(sendOk) ==
        /\ periodic_timer
        /\ Sending("send_periodic_message",
                   send_once(Self, Mgr, message_combo, signal_table, sendOk))
        /\ periodic_check' = IF ui'.ret THEN periodic_check ELSE FALSE
        /\ periodic_timer' = IF ui'.ret THEN periodic_timer ELSE FALSE
        /\ send_once_btn' = IF ui'.ret THEN send_once_btn ELSE TRUE
        /\ message_combo' = IF ui'.ret THEN message_combo
                            ELSE [message_combo EXCEPT !.enabled = TRUE]
        /\ UNCHANGED <<parserVars, last, managerAttrs, signal_table,
                       loaded_dbc_files, reloadVars, codecVars,
                   recorderVars,
                   triggerVars, mainVars>>

\* send_test_frame: the fixed frame 0x123, sent without encoding
SendTestFrame(sendOk) ==
    LET r == send_message(Mgr, sendOk)
    IN  /\ is_connected
        /\ can_last' = [op |-> "send_message", ret |-> [value |-> r.ret],
                        emitted |-> r.emitted]
        /\ ui' = NoSend
        /\ UNCHANGED <<parserVars, last, managerAttrs, senderWidgets,
                       reloadVars, codecVars,
                   recorderVars,
                   triggerVars, mainVars>>

(***************************************************************************)
(* A reload that runs concurrently with a decode on the same parser.  The  *)
(* loader thread runs load_database and the decoder thread decode_message, *)
(* one read or write of a parser attribute per step.                       *)
(***************************************************************************)
IdleLoader == [pc |-> "idle", result |-> NewParser]

IdleDecoder == [pc |-> "idle", msg_id |-> 0, data |-> <<>>, message |-> None,
                looked |-> None, result |-> None]

ReloadInit ==
    /\ loader = IdleLoader
    /\ decoder = IdleDecoder

\* lines 39-49 or 53: the file is checked and parsed; a failed load returns
\* False without an assignment
LoaderStart(path) ==
    /\ loader.pc = "idle"
    /\ loader' = IF load_database(Self, path).ret
                 THEN [pc |-> "assign_db",
                       result |-> load_database(Self, path).self]
                 ELSE IdleLoader
    /\ UNCHANGED <<parserVars, last, managerVars, senderVars, decoder, codecVars,
                   recorderVars,
                   triggerVars, mainVars>>

\* line 49 or 53: self.db = ...
LoaderAssignDb ==
    /\ loader.pc = "assign_db"
    /\ db' = loader.result.db
    /\ loader' = [loader EXCEPT !.pc = "assign_type"]
    /\ UNCHANGED <<file_path, file_type, last, managerVars, senderVars,
                   decoder, codecVars,
                   recorderVars,
                   triggerVars, mainVars>>

\* line 50 or 54: self.file_type = ...
LoaderAssignType ==
    /\ loader.pc = "assign_type"
    /\ file_type' = loader.result.file_type
    /\ loader' = [loader EXCEPT !.pc = "assign_path"]
    /\ UNCHANGED <<db, file_path, last, managerVars, senderVars, decoder,
                   codecVars,
                   recorderVars,
                   triggerVars, mainVars>>

\* lines 71-75: self.file_path = ...; return True
LoaderAssignPath ==
    /\ loader.pc = "assign_path"
    /\ file_path' = loader.result.file_path
    /\ loader' = IdleLoader
    /\ UNCHANGED <<db, file_type, last, managerVars, senderVars, decoder,
                   codecVars,
                   recorderVars,
                   triggerVars, mainVars>>

DecoderDone(msg_id, data, message, looked, result) ==
    [pc |-> "done", msg_id |-> msg_id, data |-> data, message |-> message,
     looked |-> looked, result |-> result]

\* line 183: if not self.db: return None
DecoderStart(msg_id, data) ==
    /\ decoder.pc \in {"idle", "done"}
    /\ decoder' = IF db = None
                  THEN DecoderDone(msg_id, data, None, None, None)
                  ELSE [IdleDecoder EXCEPT !.pc = "check", !.msg_id = msg_id,
                                            !.data = data]
    /\ UNCHANGED <<parserVars, last, managerVars, senderVars, loader, codecVars,
                   recorderVars,
                   triggerVars, mainVars>>

\* line 114, in get_message_by_id: if not self.db: return None
DecoderCheck ==
    /\ decoder.pc = "check"
    /\ decoder' = IF db = None
                  THEN DecoderDone(decoder.msg_id, decoder.data, None, None, None)
                  ELSE [decoder EXCEPT !.pc = "lookup"]
    /\ UNCHANGED <<parserVars, last, managerVars, senderVars, loader, codecVars,
                   recorderVars,
                   triggerVars, mainVars>>

\* lines 118-120 and 188: the message is looked up in self.db
DecoderLookup ==
    /\ decoder.pc = "lookup"
    /\ decoder' =
          LET r == get_message_by_frame_id(db, decoder.msg_id)
          IN  IF r.exc # "none"
              THEN DecoderDone(decoder.msg_id, decoder.data, None, db, None)
              ELSE [decoder EXCEPT !.pc = "run", !.message = r.val,
                                   !.looked = db]
    /\ UNCHANGED <<parserVars, last, managerVars, senderVars, loader, codecVars,
                   recorderVars,
                   triggerVars, mainVars>>

\* decode_run as it would be if the loop took the signals from self.db
\* again
decode_run_rereading(self, message, data) ==
    LET m == get_message_by_frame_id(self.db, message.frame_id)
    IN  except_Exception(IF m.exc # "none" THEN m
                         ELSE decode_with(message, m.val.signals, data)).val

\* lines 192-217 in a thread that holds message: the frame is decoded with
\* the signals of message
decode_run(self, message, data) ==
    except_Exception(decode_with(message, message.signals, data)).val

DecoderRun ==
    /\ decoder.pc = "run"
    /\ decoder' = DecoderDone(decoder.msg_id, decoder.data, decoder.message,
                              decoder.looked,
                              decode_run(Self, decoder.message, decoder.data))
    /\ UNCHANGED <<parserVars, last, managerVars, senderVars, loader, codecVars,
                   recorderVars,
                   triggerVars, mainVars>>

(***************************************************************************)
(* The raw round trip: a raw integer is packed into a frame as a signal's  *)
(* bits, and the frame is decoded by a parser whose database holds the     *)
(* signal.                                                                 *)
(***************************************************************************)
MaxSigLen == 6

CodecFrameLen == 2

CodecMsgId == 291

CodecScales == {PyI(1), PyF(FDec(1, 2)), PyF(FDec(1, 100))}

CodecSignals ==
    {Signal("S", start, length, "little_endian", is_signed, scale, PyI(0),
            None, None, "", NoChoices) :
        start \in {0, 5}, length \in 1..MaxSigLen, is_signed \in BOOLEAN,
        scale \in CodecScales}
    \cup
    {Signal("S", start, length, "big_endian", is_signed, scale, PyI(0),
            None, None, "", NoChoices) :
        start \in {7, 2}, length \in 1..MaxSigLen, is_signed \in BOOLEAN,
        scale \in CodecScales}

RawValues(sig) ==
    IF sig.is_signed
    THEN (-Pow2(sig.length - 1))..(Pow2(sig.length - 1) - 1)
    ELSE 0..(Pow2(sig.length) - 1)

\* a parser whose database holds one message with the one signal
CodecParser(sig) ==
    [db |-> [messages |-> <<Message(CodecMsgId, "M", CodecFrameLen, <<sig>>)>>],
     file_path |-> Path("codec.dbc"), file_type |-> Str("dbc")]

IdleCodec == [pc |-> "idle", signal |-> None, raw |-> 0, frame |-> <<>>,
              decoded |-> None]

CodecInit == codec = IdleCodec

\* the frame that encodes the raw value r of signal sig
CodecEncodeRaw(sig, r) ==
    /\ codec.pc = "idle"
    /\ codec' = [pc |-> "encoded", signal |-> sig, raw |-> r,
                 frame |-> PackRaw(sig, r, ZeroFrame(CodecFrameLen)),
                 decoded |-> None]
    /\ UNCHANGED <<parserVars, last, managerVars, senderVars, reloadVars,
                   recorderVars,
                   triggerVars, mainVars>>

\* decode_message on that frame
CodecDecode ==
    /\ codec.pc = "encoded"
    /\ codec' = [codec EXCEPT
                   !.pc = "decoded",
                   !.decoded = decode_message(CodecParser(codec.signal),
                                              CodecMsgId, codec.frame).val]
    /\ UNCHANGED <<parserVars, last, managerVars, senderVars, reloadVars,
                   recorderVars,
                   triggerVars, mainVars>>

(***************************************************************************)
(* Specifications.  Spec: the calls of the parser.  SpecSender: the        *)
(* manager, the sender and the loading of databases from the windows.      *)
(* SpecReload: a reload concurrent with a decode.  SpecCodec: the raw      *)
(* round trip.                                                             *)
(***************************************************************************)
(***************************************************************************)
(* The recorder as a state machine.                                        *)
(***************************************************************************)
MaxRows == 2

RecordingModes == {"raw", "decoded"}

\* filename: None for a generated name
Filenames == {None, Str("run.csv")}

\* selected_signals: None, or a list of signal names
SelectedSignals == {None, PyList(<<"Speed", "Temp">>)}

\* the call of start_recording that raises, if any
StartFailures == {"none", "mkdir", "open", "header"}

RecMessages == {CanMessage(291, <<1, 29>>, 7), CanMessage(1024, <<>>, 8)}

\* timestamp: None for the message's own
RawTimestamps == {None, IntCell(5)}

\* the signal values of a decoded message
SignalValues == {[n \in {"Speed"} |-> IntCell(10)], [n \in {"Temp"} |-> IntCell(-2)]}

NoRecCall == [op |-> "none", ret |-> None, emitted |-> <<>>]

RecorderInit ==
    /\ recorder = NewRecorder
    /\ rec_last = NoRecCall

\* what a call that gave r leaves in recorder and rec_last
Recorded(op, r) ==
    /\ r.self.message_count <= MaxRows
    /\ recorder' = r.self
    /\ rec_last' = [op |-> op, ret |-> [value |-> r.ret], emitted |-> r.emitted]

\* recorder.start_recording(filename=..., mode=..., selected_signals=...)
StartRecording(filename, mode, selected_signals, fail) ==
    /\ Recorded("start_recording",
                start_recording(recorder, "recordings", filename, mode,
                                selected_signals, fail))
    /\ UNCHANGED <<parserVars, last, managerVars, senderVars, reloadVars,
                   codecVars, triggerVars, mainVars>>

\* recorder.stop_recording()
StopRecording(closeOk) ==
    /\ Recorded("stop_recording", stop_recording(recorder, closeOk))
    /\ UNCHANGED <<parserVars, last, managerVars, senderVars, reloadVars,
                   codecVars, triggerVars, mainVars>>

\* recorder.record_raw_message(msg, timestamp)
RecordRawMessage(msg, timestamp, writeOk) ==
    /\ Recorded("record_raw_message",
                record_raw_message(recorder, msg, timestamp, writeOk))
    /\ UNCHANGED <<parserVars, last, managerVars, senderVars, reloadVars,
                   codecVars, triggerVars, mainVars>>

\* recorder.record_decoded_message(timestamp, msg_id, msg_name, signals)
RecordDecodedMessage(timestamp, msg_id, msg_name, signals, writeOk) ==
    /\ Recorded("record_decoded_message",
                record_decoded_message(recorder, timestamp, msg_id, msg_name,
                                       signals, writeOk))
    /\ UNCHANGED <<parserVars, last, managerVars, senderVars, reloadVars,
                   codecVars, triggerVars, mainVars>>

(***************************************************************************)
(* The trigger system's operations.                                        *)
(***************************************************************************)
MaxTriggers == 2

MaxFires == 2

MaxReceivers == 2

TriggerIds == 1..MaxTriggers

TriggerNames == {"T1", "T2"}

Logics == {"AND", "OR"}

ConditionTypes ==
    {">", "<", "==", "!=", ">=", "<=", "rising", "falling", "change"}

\* ConditionDialog.get_condition(): the threshold is the spin box's value,
\* None for 'change'
get_condition(signal_name, condition_text) ==
    TriggerCondition(signal_name, condition_text,
                     IF condition_text # "change" THEN IntCell(5) ELSE None)

\* the condition lists made in the dialog for a trigger evaluated alone
ConditionLists ==
    {<<>>}
    \cup {<<get_condition("S", c)>> : c \in ConditionTypes}
    \cup {<<get_condition("S", c), d>> :
            c \in ConditionTypes,
            d \in {get_condition("T", ">"), get_condition("T", "change"),
                   get_condition("S", "<=")}}

\* the condition lists of the triggers given to the manager
ManagedConditionLists ==
    {<<get_condition("S", "rising")>>, <<get_condition("S", "falling")>>}

\* the dicts of signal values
SignalDicts ==
    UNION {[D -> {IntCell(1), IntCell(5), IntCell(10)}] :
             D \in {{}, {"S"}, {"T"}, {"S", "T"}}}

ManagedSignalDicts ==
    UNION {[D -> {IntCell(1), IntCell(10)}] : D \in {{}, {"S"}}}

\* TriggerDialog.get_trigger(), conditions being the dialog's list
RECURSIVE add_conditions(_, _)
add_conditions(trigger, conditions) ==
    IF conditions = <<>> THEN trigger
    ELSE add_conditions(add_condition(trigger, Head(conditions)),
                        Tail(conditions))

get_trigger(name, logic, single_shot, conditions) ==
    add_conditions([NewTrigger(name, logic) EXCEPT !.single_shot = single_shot],
                   conditions)

NoTriggerCall ==
    [op |-> "none", t |-> 0, name |-> "", signal_values |-> None,
     ret |-> None, emitted |-> <<>>, results |-> <<>>, exc |-> "none"]

TriggerCall(op, t, name, ret, emitted, results) ==
    [op |-> op, t |-> t, name |-> name, signal_values |-> None, ret |-> ret,
     emitted |-> emitted, results |-> results, exc |-> "none"]

TriggerInit ==
    /\ trigger_objs = [t \in TriggerIds |-> None]
    /\ trigger_manager = NewTriggerManager
    /\ delivered = None
    /\ trig_last = NoTriggerCall

\* the manager's dict holds the object t
Registered(t) ==
    \E k \in DOMAIN trigger_manager.triggers : trigger_manager.triggers[k] = t

WithinFires(heap) ==
    \A t \in TriggerIds :
       IF heap[t] = None THEN TRUE ELSE heap[t].trigger_count <= MaxFires

\* trigger = dialog.get_trigger(): a new Trigger object t
CreateTrigger(t, name, logic, single_shot, conditions) ==
    /\ trigger_objs[t] = None
    /\ trigger_objs' = [trigger_objs EXCEPT
                          ![t] = get_trigger(name, logic, single_shot,
                                             conditions)]
    /\ trig_last' = TriggerCall("get_trigger", t, name, None, <<>>, <<>>)
    /\ UNCHANGED <<parserVars, last, managerVars, senderVars, reloadVars,
                   codecVars, recorderVars, trigger_manager, delivered, mainVars>>

\* the last reference to a Trigger object the manager does not hold goes
\* away
ReleaseTrigger(t) ==
    /\ trigger_objs[t] # None
    /\ ~Registered(t)
    /\ trigger_objs' = [trigger_objs EXCEPT ![t] = None]
    /\ trig_last' = TriggerCall("del", t, "", None, <<>>, <<>>)
    /\ UNCHANGED <<parserVars, last, managerVars, senderVars, reloadVars,
                   codecVars, recorderVars, trigger_manager, delivered, mainVars>>

\* what a trigger.evaluate(signal_values) that gave r leaves
TriggerEvaluated(t, signal_values, r) ==
    /\ r.self.trigger_count <= MaxFires
    /\ trigger_objs' = [trigger_objs EXCEPT ![t] = r.self]
    /\ trig_last' = [TriggerCall("evaluate", t, r.self.name, r.ret,
                                 emissions(r),
                                 <<[t |-> t, ret |-> r.ret,
                                    results |-> r.results]>>)
                       EXCEPT !.signal_values = [values |-> signal_values],
                              !.exc = r.exc]

\* trigger.evaluate(signal_values) on the object t
TriggerEvaluate(t, signal_values) ==
    /\ trigger_objs[t] # None
    /\ TriggerEvaluated(t, signal_values,
                        trigger_evaluate(trigger_objs[t], signal_values))
    /\ UNCHANGED <<parserVars, last, managerVars, senderVars, reloadVars,
                   codecVars, recorderVars, trigger_manager, delivered, mainVars>>

\* trigger.reset() on the object t
TriggerReset(t) ==
    /\ trigger_objs[t] # None
    /\ trigger_objs' = [trigger_objs EXCEPT ![t] = trigger_reset(@)]
    /\ trig_last' = TriggerCall("reset", t, trigger_objs[t].name, None,
                                <<>>, <<>>)
    /\ UNCHANGED <<parserVars, last, managerVars, senderVars, reloadVars,
                   codecVars, recorderVars, trigger_manager, delivered, mainVars>>

\* trigger.set_enabled(enabled) on the object t
SetEnabled(t, enabled) ==
    /\ trigger_objs[t] # None
    /\ trigger_objs' = [trigger_objs EXCEPT ![t] = set_enabled(@, enabled)]
    /\ trig_last' = TriggerCall("set_enabled", t, trigger_objs[t].name, None,
                                <<>>, <<>>)
    /\ UNCHANGED <<parserVars, last, managerVars, senderVars, reloadVars,
                   codecVars, recorderVars, trigger_manager, delivered, mainVars>>

\* what an add_trigger that gave r leaves
Added(t, r) ==
    /\ r.heap[t].receivers <= MaxReceivers
    /\ trigger_manager' = r.self
    /\ trigger_objs' = r.heap
    /\ trig_last' = TriggerCall("add_trigger", t, r.heap[t].name, None,
                                <<>>, <<>>)

\* trigger_manager.add_trigger(trigger), trigger being the object t
AddTrigger(t) ==
    /\ trigger_objs[t] # None
    /\ Added(t, add_trigger(trigger_manager, trigger_objs, t))
    /\ UNCHANGED <<parserVars, last, managerVars, senderVars, reloadVars,
                   codecVars, recorderVars, delivered, mainVars>>

\* trigger_manager.remove_trigger(name)
RemoveTrigger(name) ==
    /\ trigger_manager' = remove_trigger(trigger_manager, trigger_objs, name)
    /\ trig_last' = TriggerCall("remove_trigger", 0, name, None, <<>>, <<>>)
    /\ UNCHANGED <<parserVars, last, managerVars, senderVars, reloadVars,
                   codecVars, recorderVars, trigger_objs, delivered, mainVars>>

\* TriggerConfigWidget.edit_trigger(): the dialog, opened on the trigger
\* name and accepted, gives a new Trigger object t with the conditions of
\* the old one; the old trigger is removed and the new one added
EditTrigger(name, t, new_name, logic, single_shot) ==
    /\ KeyIndex(trigger_manager.triggers, trigger_objs, name, 1) # 0
    /\ trigger_objs[t] = None
    /\ Added(t, add_trigger(
                  remove_trigger(trigger_manager, trigger_objs, name),
                  [trigger_objs EXCEPT
                     ![t] = get_trigger(
                              new_name, logic, single_shot,
                              trigger_objs[trigger_manager.triggers[
                                  KeyIndex(trigger_manager.triggers,
                                           trigger_objs, name, 1)]].conditions)],
                  t))
    /\ UNCHANGED <<parserVars, last, managerVars, senderVars, reloadVars,
                   codecVars, recorderVars, delivered, mainVars>>

\* the signals' latest values after a call with signal_values
Delivered(before, signal_values) ==
    IF before = None THEN [values |-> signal_values]
    ELSE [values |->
            [n \in DOMAIN before.values \cup DOMAIN signal_values |->
               IF n \in DOMAIN signal_values THEN signal_values[n]
               ELSE before.values[n]]]

\* what an evaluate_all that gave out leaves
EvaluatedAll(signal_values, out) ==
    /\ WithinFires(out.heap)
    /\ trigger_objs' = out.heap
    /\ delivered' = Delivered(delivered, signal_values)
    /\ trig_last' = [TriggerCall("evaluate_all", 0, "", None, out.emitted,
                                 out.results)
                       EXCEPT !.signal_values = [values |-> signal_values],
                              !.exc = out.exc]

\* trigger_manager.evaluate_all(signal_values)
EvaluateAll(signal_values) ==
    /\ EvaluatedAll(signal_values,
                    evaluate_all(trigger_manager, trigger_objs, signal_values))
    /\ UNCHANGED <<parserVars, last, managerVars, senderVars, reloadVars,
                   codecVars, recorderVars, trigger_manager, mainVars>>

\* trigger_manager.reset_all()
ResetAll ==
    /\ trigger_objs' = reset_all(trigger_manager, trigger_objs)
    /\ delivered' = None
    /\ trig_last' = TriggerCall("reset_all", 0, "", None, <<>>, <<>>)
    /\ UNCHANGED <<parserVars, last, managerVars, senderVars, reloadVars,
                   codecVars, recorderVars, trigger_manager, mainVars>>

\* TriggerConfigWidget.toggle_trigger() on the trigger name
ToggleTrigger(name) ==
    /\ KeyIndex(trigger_manager.triggers, trigger_objs, name, 1) # 0
    /\ trigger_objs'
         = enable_trigger(
             trigger_manager, trigger_objs, name,
             ~trigger_objs[trigger_manager.triggers[
                 KeyIndex(trigger_manager.triggers, trigger_objs, name, 1)]].enabled)
    /\ trig_last' = TriggerCall("toggle_trigger", 0, name, None, <<>>, <<>>)
    /\ UNCHANGED <<parserVars, last, managerVars, senderVars, reloadVars,
                   codecVars, recorderVars, trigger_manager, delivered, mainVars>>

(***************************************************************************)
(* The main window: its handlers, each one action.                         *)
(***************************************************************************)
\* the largest RX counter followed
MaxRx == 3

\* the files opened in the window
WindowPaths == {"a.dbc", "bad.dbc"}

\* the frames the bus delivers: of the Engine message, whole and short, of
\* the Heartbeat message (no signals) and of an id no database has
RxMessages ==
    {CanMessage(512, <<1, 29>>, 7), CanMessage(512, <<29>>, 7),
     CanMessage(768, <<1>>, 7), CanMessage(5, <<1>>, 7)}

\* the selections made in the signal selector
WindowSelections == {<<>>, <<"200_Speed">>}

\* the condition lists made in the trigger dialog, its signals being the
\* selected ones
WindowConditionLists ==
    {<<get_condition("200_Speed", ">")>>,
     <<get_condition("200_Speed", "rising")>>}

\* the call of start_recording that raises, if any
WindowFailures == {"none", "open"}

NoWindowCall ==
    [op |-> "none", msg |-> None, writeOk |-> TRUE, decoded |-> None,
     evaluated |-> FALSE, exc |-> "none"]

MainWindowInit ==
    /\ window = NewMainWindow
    /\ win_last = NoWindowCall

\* the names SignalSelector offers: lines 83 and 89 of signal_selector.py
Offered(parser) ==
    {full_signal_name(get_all_signals(parser).val[i].message_id,
                      get_all_signals(parser).val[i].signal_name) :
       i \in 1..Len(get_all_signals(parser).val)}

\* MainWindow.show_signal_selector(), the dialog accepted with selected
ShowSignalSelector(selected) ==
    /\ is_loaded(Self)
    /\ \A k \in 1..Len(selected) : selected[k] \in Offered(Self)
    /\ window' = [window EXCEPT !.selected_signals = selected]
    /\ win_last' = [NoWindowCall EXCEPT !.op = "show_signal_selector"]
    /\ UNCHANGED <<parserVars, last, managerVars, senderVars, reloadVars,
                   codecVars, recorderVars, triggerVars>>

\* MainWindow.toggle_recording()
ToggleRecording(fail, closeOk) ==
    /\ IF ~recorder.is_recording
       THEN Recorded("start_recording",
                     start_recording(
                         recorder, "recordings", None,
                         IF window.selected_signals # <<>> THEN "decoded"
                         ELSE "raw",
                         PyList(window.selected_signals), fail))
       ELSE Recorded("stop_recording", stop_recording(recorder, closeOk))
    /\ win_last' = [NoWindowCall EXCEPT !.op = "toggle_recording"]
    /\ UNCHANGED <<parserVars, last, managerVars, senderVars, reloadVars,
                   codecVars, triggerVars, window>>

\* what a run of on_message_received that gave r leaves
Received(msg, writeOk, r) ==
    /\ r.self.message_count <= MaxRx
    /\ r.recorder.message_count <= MaxRows
    /\ WithinFires(r.heap)
    /\ window' = r.self
    /\ recorder' = r.recorder
    /\ trigger_objs' = r.heap
    /\ delivered' = IF r.evaluated
                    THEN Delivered(delivered, r.self.signal_values)
                    ELSE delivered
    /\ trig_last' = IF r.evaluated
                    THEN [TriggerCall("evaluate_all", 0, "", None, r.emitted,
                                      r.results)
                            EXCEPT !.signal_values =
                                      [values |-> r.self.signal_values],
                                   !.exc = r.exc]
                    ELSE NoTriggerCall
    /\ win_last' = [op |-> "on_message_received", msg |-> msg,
                    writeOk |-> writeOk, decoded |-> r.decoded,
                    evaluated |-> r.evaluated, exc |-> r.exc]

\* can_manager.message_received(msg) delivered to on_message_received
OnMessageReceived(msg, writeOk) ==
    /\ Received(msg, writeOk,
                on_message_received(window, Self, recorder, trigger_manager,
                                    trigger_objs, msg, writeOk))
    /\ UNCHANGED <<parserVars, last, managerVars, senderVars, reloadVars,
                   codecVars, rec_last, trigger_manager>>

Init ==
    /\ ParserInit
    /\ RecorderInit
    /\ TriggerInit
    /\ MainWindowInit
    /\ ManagerInit
    /\ SenderInit
    /\ ReloadInit
    /\ CodecInit

Next ==
    \/ \E path \in Paths : LoadDatabase(path)
    \/ \E msg_id \in MsgIds, data \in Frames : DecodeMessage(msg_id, data)
    \/ \E msg_id \in MsgIds, data \in ValueMaps : EncodeMessage(msg_id, data)
    \/ GetMessages
    \/ IsLoaded
    \/ \E msg_id \in MsgIds : GetMessageById(msg_id)
    \/ \E name \in MsgNames : GetMessageByName(name)
    \/ \E msg_id \in MsgIds : GetSignalsForMessage(msg_id)
    \/ GetAllSignals

Spec == Init /\ [][Next]_vars

NextSender ==
    \/ \E a, b, c, d \in BOOLEAN : Connect(DialogInterface, a, b, c, d)
    \/ \E a, b \in BOOLEAN : Disconnect(a, b)
    \/ \E path \in GuiPaths : AddDbcFile(path)
    \/ \E path \in GuiPaths : ReloadSelectedDbc(path)
    \/ \E i \in 1..3 : SelectMessage(i)
    \/ \E row \in 1..2, v \in SpinInputs : SetValue(row, v)
    \/ \E ok \in BOOLEAN : SendOnce(ok)
    \/ TogglePeriodic
    \/ \E ok \in BOOLEAN : SendPeriodicMessage(ok)
    \/ \E ok \in BOOLEAN : SendTestFrame(ok)

SpecSender == Init /\ [][NextSender]_vars

NextManager ==
    \/ \E i \in Interfaces, a, b, c, d \in BOOLEAN : Connect(i, a, b, c, d)
    \/ \E a, b \in BOOLEAN : Disconnect(a, b)
    \/ \E ok \in BOOLEAN : SendMessage(ok)
    \/ \E p, i, s \in Detections : GetAvailableInterfaces(p, i, s)

SpecManager == Init /\ [][NextManager]_vars

NextRecorder ==
    \/ \E f \in Filenames, mode \in RecordingModes, sel \in SelectedSignals,
          fail \in StartFailures : StartRecording(f, mode, sel, fail)
    \/ \E ok \in BOOLEAN : StopRecording(ok)
    \/ \E msg \in RecMessages, ts \in RawTimestamps, ok \in BOOLEAN :
          RecordRawMessage(msg, ts, ok)
    \/ \E signals \in SignalValues, ok \in BOOLEAN :
          RecordDecodedMessage(IntCell(5), 512, "Engine", signals, ok)

SpecRecorder == Init /\ [][NextRecorder]_vars

\* one Trigger object, its methods called directly
NextTrigger ==
    \/ \E l \in Logics, s \in BOOLEAN, c \in ConditionLists :
          CreateTrigger(1, "T1", l, s, c)
    \/ \E v \in SignalDicts : TriggerEvaluate(1, v)
    \/ TriggerReset(1)
    \/ \E b \in BOOLEAN : SetEnabled(1, b)

SpecTrigger == Init /\ [][NextTrigger]_vars

\* a TriggerManager and the Trigger objects given to it
NextTriggerManager ==
    \/ \E t \in TriggerIds, n \in TriggerNames, c \in ManagedConditionLists :
          CreateTrigger(t, n, "AND", FALSE, c)
    \/ \E t \in TriggerIds : ReleaseTrigger(t)
    \/ \E t \in TriggerIds : AddTrigger(t)
    \/ \E n \in TriggerNames : RemoveTrigger(n)
    \/ \E n, m \in TriggerNames, t \in TriggerIds :
          EditTrigger(n, t, m, "AND", FALSE)
    \/ \E v \in ManagedSignalDicts : EvaluateAll(v)
    \/ ResetAll
    \/ \E n \in TriggerNames : ToggleTrigger(n)

SpecTriggerManager == Init /\ [][NextTriggerManager]_vars

\* the main window with its parser, recorder and trigger manager
NextMainWindow ==
    \/ \E path \in WindowPaths : LoadDatabase(path)
    \/ \E sel \in WindowSelections : ShowSignalSelector(sel)
    \/ \E fail \in WindowFailures, ok \in BOOLEAN : ToggleRecording(fail, ok)
    \/ \E c \in WindowConditionLists : CreateTrigger(1, "T1", "AND", FALSE, c)
    \/ AddTrigger(1)
    \/ \E msg \in RxMessages, ok \in BOOLEAN : OnMessageReceived(msg, ok)

SpecMainWindow == Init /\ [][NextMainWindow]_vars

NextReload ==
    \/ \E path \in GuiPaths : LoaderStart(path)
    \/ LoaderAssignDb
    \/ LoaderAssignType
    \/ LoaderAssignPath
    \/ \E msg_id \in MsgIds, data \in Frames : DecoderStart(msg_id, data)
    \/ DecoderCheck
    \/ DecoderLookup
    \/ DecoderRun

SpecReload == Init /\ [][NextReload]_vars

NextCodec ==
    \/ \E sig \in CodecSignals : \E r \in RawValues(sig) : CodecEncodeRaw(sig, r)
    \/ CodecDecode

SpecCodec == Init /\ [][NextCodec]_vars

(***************************************************************************)
(* Properties of the parser's calls, checked under Spec.                   *)
(***************************************************************************)
Known(d, msg_id) == get_message_by_frame_id(d, msg_id).exc = "none"

MessageOf(d, msg_id) == get_message_by_frame_id(d, msg_id).val

\* C1: with a database loaded, decode_message returns None only if the
\* frame id is unknown to the database: an unknown id yields None and every
\* frame whose id is known yields a signal map.
C1_DecodeFailsOnlyForUnknownId ==
    (last.op = "decode_message" /\ db # None) =>
        /\ last.exc = "none"
        /\ (last.ret = None) <=> ~Known(db, last.msg_id)

\* C3: a load_database call that returns False leaves db, file_path and
\* file_type as they were before the call.
C3_FailedLoadKeepsState ==
    [][(last'.op = "load_database" /\ last'.ret = FALSE)
          => UNCHANGED <<db, file_path, file_type>>]_vars

\* a load failed while a database was loaded, which is still the one that
\* decodes
C3_FailedLoadWhileLoaded ==
    /\ last.op = "load_database"
    /\ last.ret = FALSE
    /\ db = DbA
    /\ file_path = Path("a.dbc")
    /\ file_type = Str("dbc")
    /\ last.path \in {"bad.dbc", "gone.dbc", "v5.sym", "notes.txt"}

\* the signals of message m that lie within a frame of nbytes bytes
WellFormed(m, nbytes) ==
    {m.signals[j].name : j \in {i \in 1..Len(m.signals) :
                                   SignalFits(m.signals[i], nbytes)}}

\* C6: a frame that is too short for a signal of its message is still
\* decoded: the result holds the signals that lie within the frame and
\* skips the others.
C6_PartialDecode ==
    (/\ last.op = "decode_message"
     /\ db # None
     /\ Known(db, last.msg_id)
     /\ WellFormed(MessageOf(db, last.msg_id), Len(last.data)) # {}
     /\ WellFormed(MessageOf(db, last.msg_id), Len(last.data))
           # SignalNames(MessageOf(db, last.msg_id)))
    => /\ last.ret # None
       /\ DOMAIN last.ret = WellFormed(MessageOf(db, last.msg_id),
                                       Len(last.data))

\* the value map of the last call names a signal its message does not have
UnknownSignalGiven ==
    /\ last.op = "encode_message"
    /\ db # None
    /\ Known(db, last.msg_id)
    /\ \E n \in DOMAIN last.data : n \notin SignalNames(MessageOf(db, last.msg_id))

C8_CodecNeverRaises ==
    [][(last'.op \in {"decode_message", "encode_message"})
          => (last'.exc = "none" /\ UNCHANGED <<db, file_path, file_type>>)]_vars

\* a call on which the library raised returned None
C8_LibraryErrorReturned ==
    /\ db # None
    /\ \/ /\ last.op = "decode_message"
          /\ decode_body(Self, last.msg_id, last.data).exc # "none"
       \/ /\ last.op = "encode_message"
          /\ encode_body(Self, last.msg_id, last.data).exc # "none"
    /\ last.exc = "none"
    /\ last.ret = None

\* what the caller of load_database gets for a path: the value returned
\* and the dialog MainWindow shows
Outcome(path) ==
    [ret |-> load_database(Self, path).ret, dialog |-> error_msg(path)]

\* the cause of a failed load, as load_database logs it
Cause(path) == load_database(Self, path).log

\* C9: the outcome of loading a SYM file of an unsupported version differs
\* from the outcome of a load that fails on a parse error, on a missing
\* file or on an unsupported extension.
C9_UnsupportedVersionDistinguishable ==
    (last.op = "load_database"
        /\ last.log = "SYM file version not supported by cantools")
    => \A q \in Paths :
          (~load_database(Self, q).ret /\ Cause(q) # last.log)
             => Outcome(q) # Outcome(last.path)

\* C10: get_messages returns the messages in ascending order of frame id.
C10_MessagesSortedById ==
    (last.op = "get_messages" /\ db # None)
    => \A i, j \in 1..Len(last.ret) : i < j => last.ret[i].id < last.ret[j].id

(***************************************************************************)
(* Properties of the sender, checked under SpecSender.                     *)
(***************************************************************************)
\* the latest step ran send_once, for the button or for a tick of the
\* timer, and encode_message returned None to it
EncodeFailed ==
    /\ ui.op \in {"send_once", "send_periodic_message"}
    /\ ui.encoded = None

\* C4: when encode_message returns None, send_once returns False and does
\* not call send_message, for the button and for every tick of the timer.
C4_NoSendWhenEncodeFails ==
    EncodeFailed => (ui.ret = FALSE /\ ~ui.send /\ can_last = NoCanCall)

\* a tick of the timer whose encoding failed while the manager was
\* connected, after which the timer is stopped
C4_PeriodicTickEncodeFailed ==
    /\ EncodeFailed
    /\ ui.op = "send_periodic_message"
    /\ is_connected
    /\ bus # None
    /\ ~periodic_timer

(***************************************************************************)
(* Properties of a reload that runs concurrently with a decode, checked    *)
(* under SpecReload.                                                       *)
(***************************************************************************)
\* a parser that holds database d
ParserOf(d) == [db |-> d, file_path |-> None, file_type |-> None]

\* C2: a decode_message call that interleaves with a reload takes its
\* message and the message's signals from one database only: its result is
\* the result of decoding with the database in which it looked the message
\* up, also when the reload has replaced that database since.
C2_DecodeFromOneDatabase ==
    decoder.pc = "done" =>
        decoder.result = decode_message(ParserOf(decoder.looked),
                                        decoder.msg_id, decoder.data).val

\* a decode that looked its message up before a reload replaced the
\* database, and returned the signals of the old schema
C2_DecodedWithOldSchema ==
    /\ decoder.pc = "done"
    /\ decoder.looked # None
    /\ decoder.looked # db
    /\ decoder.result # None
    /\ decoder.result # decode_message(Self, decoder.msg_id, decoder.data).val

(***************************************************************************)
(* Properties of the raw round trip, checked under SpecCodec.              *)
(***************************************************************************)
\* C5: for every signal with a scale other than 0 and every raw integer r
\* of the signal's bit width, decoding the frame that encodes r reports
\* raw = r.
C5_RawRoundTrip ==
    codec.pc = "decoded" =>
        /\ codec.decoded # None
        /\ codec.decoded[codec.signal.name].raw = PyI(codec.raw)

\* C11: while no database is loaded, is_loaded() is false, decode_message,
\* encode_message, get_message_by_id and get_message_by_name return None,
\* get_messages, get_signals_for_message and get_all_signals return empty
\* lists, and none of them raises.
C11_GatedByLoaded ==
    db = None =>
        /\ last.op = "is_loaded" => (last.exc = "none" /\ last.ret = FALSE)
        /\ last.op \in {"decode_message", "encode_message",
                        "get_message_by_id", "get_message_by_name"}
              => (last.exc = "none" /\ last.ret = None)
        /\ last.op \in {"get_messages", "get_signals_for_message",
                        "get_all_signals"}
              => (last.exc = "none" /\ last.ret = <<>>)

\* get_all_signals was called on a parser that never loaded a database
C11_AllSignalsBeforeLoad ==
    /\ db = None
    /\ file_path = None
    /\ last.op = "get_all_signals"
    /\ last.ret = <<>>

\* the database d with the enumeration labels of every signal removed
WithoutChoices(d) ==
    [messages |->
        [i \in 1..Len(d.messages) |->
            [d.messages[i] EXCEPT !.signals =
                [j \in 1..Len(d.messages[i].signals) |->
                    [d.messages[i].signals[j] EXCEPT !.choices = NoChoices]]]]]

\* the numeric raw and physical value of every signal of a decode result
NumericValues(result) ==
    IF result = None THEN None
    ELSE [n \in DOMAIN result |->
            [raw |-> result[n].raw, physical |-> result[n].physical.num]]

\* C12: decode_message returns for the same frame bytes the same numeric raw
\* and physical values for every signal as it would if no signal of the
\* database defined choices.
C12_ChoicesDisplayOnly ==
    (last.op = "decode_message" /\ db # None) =>
        NumericValues(last.ret)
          = NumericValues(decode_message(ParserOf(WithoutChoices(db)),
                                         last.msg_id, last.data).val)

\* a parser that has loaded nothing but the file at path
OnlyLoaded(path) == ParserOf(load_file(path).val)

\* an empty frame, a frame of one byte and a frame of two bytes
SampleFrames == {<<>>, <<1>>, <<29, 255>>}

\* C13: once a load has succeeded, every lookup, listing and decode of the
\* parser is that of a parser holding only the database of the file loaded
\* last, and a message that file does not define is neither returned nor
\* decodable, whatever was loaded before.
C13_ReloadReplacesWholesale ==
    db # None =>
        /\ get_messages(Self) = get_messages(OnlyLoaded(file_path.path))
        /\ get_all_signals(Self) = get_all_signals(OnlyLoaded(file_path.path))
        /\ \A msg_id \in MsgIds :
              /\ get_message_by_id(Self, msg_id)
                  = get_message_by_id(OnlyLoaded(file_path.path), msg_id)
              /\ \A data \in SampleFrames :
                    decode_message(Self, msg_id, data)
                      = decode_message(OnlyLoaded(file_path.path), msg_id, data)
              /\ ~Known(load_file(file_path.path).val, msg_id) =>
                    /\ get_message_by_id(Self, msg_id).val = None
                    /\ \A data \in SampleFrames :
                          decode_message(Self, msg_id, data).val = None
        /\ \A name \in MsgNames :
              get_message_by_name(Self, name)
                = get_message_by_name(OnlyLoaded(file_path.path), name)
        /\ message_combo.index # 0 =>
              encode_message(Self, currentData(message_combo).id,
                             get_signal_values(signal_table))
                = encode_message(OnlyLoaded(file_path.path),
                                 currentData(message_combo).id,
                                 get_signal_values(signal_table))

\* b.dbc was loaded after a.dbc, which the configuration panel still lists:
\* frame 0x100, defined only in a.dbc, is unknown
C13_ReloadedOverListedFile ==
    /\ db = DbB
    /\ file_path = Path("b.dbc")
    /\ "a.dbc" \in loaded_dbc_files
    /\ get_message_by_id(Self, 256).val = None
    /\ get_message_by_id(OnlyLoaded("a.dbc"), 256).val # None

Emitted(sig) == \E i \in 1..Len(can_last.emitted) : can_last.emitted[i] = sig

C15_VirtualAlwaysAvailable ==
    can_last.op = "get_available_interfaces" =>
        /\ can_last.exc = "none"
        /\ "virtual" \in DOMAIN can_last.ret.value
        /\ can_last.ret.value["virtual"] = <<"vcan0", "vcan1">>
        /\ DOMAIN can_last.ret.value \subseteq HardwareInterfaces \cup {"virtual"}
        /\ \A k \in HardwareInterfaces :
              IF can_last.configs[k] \in {Ret(<<Config("ch1")>>),
                                          Ret(<<Config("ch1"), Config("ch2")>>)}
              THEN /\ k \in DOMAIN can_last.ret.value
                   /\ Len(can_last.ret.value[k]) = Len(can_last.configs[k].val)
                   /\ can_last.ret.value[k][1] = "ch1"
              ELSE k \notin DOMAIN can_last.ret.value

\* the detection of pcan raised, that of ixxat found nothing and that of
\* socketcan found two channels
C15_OneDetectionFailed ==
    /\ can_last.op = "get_available_interfaces"
    /\ can_last.configs.pcan.exc # "none"
    /\ can_last.configs.ixxat = Ret(<<>>)
    /\ can_last.configs.socketcan = Ret(<<Config("ch1"), Config("ch2")>>)
    /\ DOMAIN can_last.ret.value = {"socketcan", "virtual"}

\* C16: connect() returns True if and only if the manager is connected to
\* the requested interface afterwards; when it returns False, is_connected
\* is false and error_occurred and connection_status_changed(False) have
\* been emitted.
C16_ConnectReturnsConnected ==
    can_last.op = "connect" =>
        /\ can_last.ret.value = TRUE
             <=> (is_connected /\ interface_type = Str(can_last.interface))
        /\ can_last.ret.value = FALSE
             => /\ ~is_connected
                /\ Emitted("error_occurred")
                /\ Emitted("connection_status_changed(False)")

\* C17: while is_connected is false the manager holds no bus and no
\* notifier, and no bus is open but the one the manager holds.
C17_NoBusWhenDisconnected ==
    /\ ~is_connected => (bus = None /\ notifier = None)
    /\ open_buses = IF bus # None THEN 1 ELSE 0

\* C18: send_message while not connected returns False, emits
\* error_occurred and does not call bus.send; while connected it calls
\* bus.send and returns True if and only if bus.send returned; a send that
\* returns False leaves bus, notifier and is_connected unchanged.
C18_SendMessage ==
    [][can_last'.op = "send_message" =>
          /\ ~is_connected =>
                /\ can_last'.ret.value = FALSE
                /\ can_last'.emitted = <<"error_occurred">>
                /\ ~can_last'.called
          /\ is_connected =>
                /\ can_last'.called
                /\ can_last'.ret.value = TRUE <=> can_last'.sent
          /\ can_last'.ret.value = FALSE
                => UNCHANGED <<bus, notifier, is_connected>>]_vars

\* bus.send raised while connected: False returned, still connected
C18_FailedSendWhileConnected ==
    /\ can_last.op = "send_message"
    /\ can_last.called
    /\ ~can_last.sent
    /\ can_last.ret.value = FALSE
    /\ is_connected
    /\ bus # None

\* C19: start_recording called while a recording is in progress returns
\* False, emits error_occurred and nothing else, and leaves the recorder as
\* it was: the open file, file_path, recording_mode, selected_signals and
\* message_count.
C19_StartWhileRecordingRejected ==
    [][(rec_last'.op = "start_recording" /\ recorder.is_recording) =>
          /\ rec_last'.ret.value = FALSE
          /\ rec_last'.emitted
               = <<Emit("error_occurred", "Recording already in progress", 0)>>
          /\ recorder' = recorder]_vars

\* a start was rejected while a recording with one row written was running
C19_RejectedDuringRecording ==
    /\ rec_last.op = "start_recording"
    /\ rec_last.ret.value = FALSE
    /\ recorder.is_recording
    /\ recorder.csv_file # None
    /\ recorder.message_count = 1
    /\ Len(recorder.csv_file.rows) = 2

\* the recording mode in which a record call writes
ModeOf(op) == IF op = "record_raw_message" THEN "raw" ELSE "decoded"

\* C20: record_raw_message and record_decoded_message change the recorder
\* only while is_recording is true and the recording mode is the call's
\* own, and then by appending one row to the file and adding one to
\* message_count; in every other state the call leaves the file and
\* message_count unchanged.
C20_RowsOnlyInMatchingMode ==
    [][rec_last'.op \in {"record_raw_message", "record_decoded_message"} =>
          IF recorder.is_recording
             /\ recorder.recording_mode = ModeOf(rec_last'.op)
          THEN \/ recorder' = recorder
               \/ /\ Len(recorder'.csv_file.rows)
                       = Len(recorder.csv_file.rows) + 1
                  /\ SubSeq(recorder'.csv_file.rows, 1,
                            Len(recorder.csv_file.rows))
                       = recorder.csv_file.rows
                  /\ recorder'.message_count = recorder.message_count + 1
          ELSE recorder' = recorder]_vars

\* record_raw_message was called during a recording in decoded mode: only
\* the header is in the file
C20_RawCallInDecodedMode ==
    /\ rec_last.op = "record_raw_message"
    /\ recorder.is_recording
    /\ recorder.recording_mode = "decoded"
    /\ recorder.message_count = 0
    /\ Len(recorder.csv_file.rows) = 1

\* the latest step was a start_recording that returned True
StartedNow == rec_last'.op = "start_recording" /\ rec_last'.ret.value = TRUE

\* the latest step was a stop_recording that emitted recording_stopped
StoppedNow ==
    /\ rec_last'.op = "stop_recording"
    /\ rec_last'.emitted # <<>>
    /\ rec_last'.emitted[1].sig = "recording_stopped"

\* the data rows of the open file: every row but the header
DataRows(self) == Len(self.csv_file.rows) - 1

\* C21: the count carried by recording_stopped is the number of data rows
\* written since the successful start_recording it ends: while recording,
\* message_count is the number of data rows in the file; a successful
\* start sets it to 0; any other step that changes it adds one and appends
\* one row.
C21_CountIsRowsWritten ==
    /\ [](recorder.is_recording =>
            recorder.message_count = DataRows(recorder))
    /\ [][StoppedNow =>
            /\ rec_last'.emitted
                 = <<Emit("recording_stopped", "", DataRows(recorder))>>
            /\ recorder.is_recording]_vars
    /\ [][StartedNow =>
            recorder'.message_count = 0 /\ DataRows(recorder') = 0]_vars
    /\ [][recorder'.message_count # recorder.message_count =>
            \/ StartedNow
            \/ /\ rec_last'.op \in {"record_raw_message",
                                    "record_decoded_message"}
               /\ recorder'.message_count = recorder.message_count + 1
               /\ DataRows(recorder') = DataRows(recorder) + 1]_vars

\* a recording of two rows was stopped and reported two messages
C21_StoppedAfterTwoRows ==
    /\ rec_last.op = "stop_recording"
    /\ rec_last.emitted = <<Emit("recording_stopped", "", 2)>>
    /\ ~recorder.is_recording
    /\ recorder.message_count = 2

\* C22: in every state is_recording is true exactly when a CSV file is
\* open, csv_file and csv_writer both being set, also after a
\* start_recording or stop_recording that failed part-way.
C22_RecordingIffFileOpen ==
    recorder.is_recording
      <=> (recorder.csv_file # None /\ recorder.csv_writer # None)

\* the condition is met by the signal values: its signal has a value and
\* the condition holds for it
Met(condition, signal_values) ==
    /\ condition.signal_name \in DOMAIN signal_values
    /\ condition_result(condition, signal_values[condition.signal_name])

\* when a trigger is to fire for the signal values
ShouldFire(self, signal_values) ==
    /\ self.enabled
    /\ self.armed
    /\ self.conditions # <<>>
    /\ IF self.logic = "AND"
       THEN \A k \in DOMAIN self.conditions :
               Met(self.conditions[k], signal_values)
       ELSE \E k \in DOMAIN self.conditions :
               Met(self.conditions[k], signal_values)

\* the outcome of an evaluate that had to fire, or not to fire
FiredAsDue(due, self, after, call) ==
    /\ call.ret = due
    /\ call.emitted
         = IF due THEN <<Triggered(self.name, call.signal_values.values)>>
           ELSE <<>>
    /\ after.trigger_count = self.trigger_count + (IF due THEN 1 ELSE 0)

\* C23: Trigger.evaluate returns True and fires (emits triggered once and
\* adds one to trigger_count) exactly when the trigger is enabled, armed,
\* has a condition and, under AND, every condition is met, under OR, one
\* is, a condition whose signal has no value being not met; otherwise it
\* returns False, emits nothing and leaves trigger_count as it was.
C23_EvaluateFiresIff ==
    [][trig_last'.op = "evaluate" =>
          FiredAsDue(ShouldFire(trigger_objs[trig_last'.t],
                                trig_last'.signal_values.values),
                     trigger_objs[trig_last'.t], trigger_objs'[trig_last'.t],
                     trig_last')]_vars

\* an OR trigger fired on its second condition, the signal of the first
\* having no value
C23_FiredWithAbsentSignal ==
    /\ trig_last.op = "evaluate"
    /\ trig_last.ret = TRUE
    /\ trigger_objs[1].logic = "OR"
    /\ "S" \notin DOMAIN trig_last.signal_values.values
    /\ trig_last.results[1].results = <<FALSE, TRUE>>
    /\ trigger_objs[1].trigger_count = 1

\* C24: a single-shot trigger that fired is not armed, and an evaluate of
\* a trigger that is not armed returns False, emits nothing and leaves
\* trigger_count and armed as they were; only reset() arms a trigger
\* again; a trigger that is not single-shot is armed after firing.
C24_SingleShotFiresOnce ==
    [][/\ (trig_last'.op = "evaluate" /\ ~trigger_objs[trig_last'.t].armed) =>
            /\ trig_last'.ret = FALSE
            /\ trig_last'.emitted = <<>>
            /\ trigger_objs'[trig_last'.t] = trigger_objs[trig_last'.t]
       /\ (trig_last'.op = "evaluate" /\ trig_last'.ret = TRUE) =>
            trigger_objs'[trig_last'.t].armed
              = ~trigger_objs[trig_last'.t].single_shot
       /\ \A t \in TriggerIds :
            (/\ trigger_objs[t] # None
             /\ trigger_objs'[t] # None
             /\ ~trigger_objs[t].armed
             /\ trigger_objs'[t].armed) => trig_last'.op = "reset"]_vars

\* a single-shot trigger that fired once was evaluated again with its
\* condition met and did not fire
C24_SecondEvaluateSilent ==
    /\ trig_last.op = "evaluate"
    /\ trig_last.ret = FALSE
    /\ trigger_objs[1].single_shot
    /\ ~trigger_objs[1].armed
    /\ trigger_objs[1].enabled
    /\ trigger_objs[1].trigger_count = 1
    /\ Len(trigger_objs[1].conditions) = 1
    /\ Met(trigger_objs[1].conditions[1], trig_last.signal_values.values)

\* the k-th condition of the trigger e.t was met in the evaluate_all call
\* that gave the results e
MetIn(e, k) == e.results # <<>> /\ e.results[k]

\* the two values cross the threshold upward, for "rising", or downward
Crosses(condition_type, previous, threshold, current) ==
    IF condition_type = "rising"
    THEN previous < threshold /\ threshold <= current
    ELSE previous >= threshold /\ threshold > current

\* the signal had a value before this call, and that value and the value
\* of this call cross the condition's threshold
CrossedSincePreviousCall(condition, before, now) ==
    /\ before # None
    /\ condition.signal_name \in DOMAIN before.values
    /\ Crosses(condition.condition_type,
               before.values[condition.signal_name].i, condition.threshold.i,
               now.values[condition.signal_name].i)

\* C25: in an evaluate_all call a RISING_EDGE or FALLING_EDGE condition is
\* met only when the value the evaluate_all calls before gave its signal
\* last and the value of this call cross the threshold, upward for
\* RISING_EDGE, downward for FALLING_EDGE; it is not met by the first
\* value after creation or reset_all.
C25_EdgeBetweenConsecutiveCalls ==
    [][trig_last'.op = "evaluate_all" =>
          \A j \in DOMAIN trig_last'.results :
             \A k \in DOMAIN trigger_objs[trig_last'.results[j].t].conditions :
                (/\ MetIn(trig_last'.results[j], k)
                 /\ trigger_objs[trig_last'.results[j].t].conditions[k]
                       .condition_type \in {"rising", "falling"})
                => CrossedSincePreviousCall(
                       trigger_objs[trig_last'.results[j].t].conditions[k],
                       delivered, delivered')]_vars

IsTriggerFired(e) == e.sig = "trigger_fired"

DidFire(e) == e.ret

\* the trigger_fired emissions due for the triggers that fired
FiredOnce(heap, fired, signal_values) ==
    [k \in DOMAIN fired |-> TriggerFired(heap[fired[k].t].name, signal_values)]

\* C26: in every evaluate_all call each firing of a registered trigger adds
\* one to that trigger's trigger_count and gives one trigger_fired emission
\* of the manager, in the order of the firings; a trigger the manager does
\* not hold is not evaluated, does not count and gives none.
C26_OneEmissionPerFiring ==
    [][trig_last'.op = "evaluate_all" =>
          /\ SelectSeq(trig_last'.emitted, IsTriggerFired)
               = FiredOnce(trigger_objs,
                           SelectSeq(trig_last'.results, DidFire),
                           trig_last'.signal_values.values)
          /\ [j \in DOMAIN trig_last'.results |-> trig_last'.results[j].t]
               = trigger_manager.triggers
          /\ \A t \in TriggerIds :
                trigger_objs[t] # None =>
                   trigger_objs'[t].trigger_count
                     = trigger_objs[t].trigger_count
                       + (IF \E j \in DOMAIN trig_last'.results :
                                /\ trig_last'.results[j].t = t
                                /\ trig_last'.results[j].ret
                          THEN 1 ELSE 0)]_vars

\* the latest step was a tick of the periodic timer
Ticked == ui'.op = "send_periodic_message"

\* C27: the periodic timer is started only by toggle_periodic(True) with
\* the manager connected and a message selected, and runs only with the
\* check box checked and the send controls disabled; a tick sends a frame
\* only while connected with a message selected; a tick whose send fails
\* stops the timer, unchecks the check box and enables the send controls,
\* and there is no tick while the timer is stopped.
C27_PeriodicStopsOnFailure ==
    /\ [](periodic_timer =>
            periodic_check /\ ~send_once_btn /\ ~message_combo.enabled)
    /\ [][(periodic_timer' /\ ~periodic_timer) =>
            /\ ~periodic_check /\ periodic_check'
            /\ is_connected
            /\ currentData(message_combo) # None]_vars
    /\ [][Ticked =>
            /\ periodic_timer
            /\ ui'.send => (is_connected /\ currentData(message_combo) # None)
            /\ ui'.ret => (ui'.send /\ periodic_timer' /\ periodic_check')
            /\ ~ui'.ret => /\ ~periodic_timer'
                           /\ ~periodic_check'
                           /\ send_once_btn'
                           /\ message_combo'.enabled]_vars

\* a tick reached the bus, the send failed and periodic sending stopped
C27_StoppedAfterBusError ==
    /\ ui.op = "send_periodic_message"
    /\ ui.send
    /\ ~ui.ret
    /\ is_connected
    /\ ~periodic_timer
    /\ ~periodic_check
    /\ send_once_btn
    /\ message_combo.enabled


\* the frame msg decodes: a database is loaded and decode_message gives a
\* dict that is not empty
Decodes(msg) ==
    /\ db # None
    /\ Truthy(decode_message(Self, msg.arbitration_id, msg.data).val)

\* the rows of the recording, none without a file
RowsOf(rec) == IF rec.csv_file = None THEN <<>> ELSE rec.csv_file.rows

\* what a run of on_message_received for msg did, from the state before
\* and the state after it
ReceivedAsClaimed(msg, writeOk, evaluated, exc, before, after, rec, rec_after, heap, heap_after, trig) ==
    /\ after.message_count = before.message_count + 1
    /\ (rec.is_recording /\ rec.recording_mode = "raw" /\ writeOk)
          => RowsOf(rec_after) = Append(RowsOf(rec), raw_row(msg, Now))
    /\ (db = None \/ ~Known(db, msg.arbitration_id)) => ~Decodes(msg)
    /\ IF Decodes(msg)
       THEN /\ \A n \in DOMAIN decode_message(Self, msg.arbitration_id,
                                              msg.data).val :
                 after.signal_values[full_signal_name(msg.arbitration_id, n)]
                    = decode_message(Self, msg.arbitration_id,
                                     msg.data).val[n]
            /\ evaluated
            /\ trig.op = "evaluate_all"
            /\ trig.signal_values = [values |-> after.signal_values]
            /\ (rec.is_recording /\ rec.recording_mode = "decoded" /\ writeOk)
                  => /\ Len(RowsOf(rec_after)) = Len(RowsOf(rec)) + 1
                     /\ RowsOf(rec_after)[Len(RowsOf(rec_after))][2]
                           = IntCell(msg.arbitration_id)
       ELSE /\ after.signal_values = before.signal_values
            /\ ~evaluated
            /\ trig.op = "none"
            /\ heap_after = heap
            /\ exc = "none"
            /\ (rec.is_recording /\ rec.recording_mode = "decoded")
                  => rec_after = rec

\* a step of on_message_received: the other handlers of the window leave
\* their own name in win_last, a load its call in last, and the trigger
\* dialog its calls in trig_last
ReceivedNow ==
    /\ win_last'.op = "on_message_received"
    /\ trig_last'.op \in {"evaluate_all", "none"}
    /\ last' = last

\* C28: for every received frame on_message_received increments the RX
\* counter and, in raw recording mode, writes the raw row whether or not
\* the frame decodes; the signal values, the decoded row and the call of
\* evaluate_all happen only when a database is loaded and the frame
\* decodes, so a frame with an id unknown to the database raises nothing,
\* changes no signal value and evaluates no trigger.
C28_ReceiveGatedOnDecode ==
    [][ReceivedNow =>
         ReceivedAsClaimed(win_last'.msg, win_last'.writeOk,
                           win_last'.evaluated, win_last'.exc, window,
                           window', recorder, recorder', trigger_objs,
                           trigger_objs', trig_last')]_vars

\* an unknown frame arrived in raw recording with a database loaded, a
\* trigger registered and signal values held: it is counted and recorded
C28_UnknownFrameRecordedRaw ==
    /\ win_last.op = "on_message_received"
    /\ win_last.msg.arbitration_id = 5
    /\ db # None
    /\ Registered(1)
    /\ recorder.is_recording /\ recorder.recording_mode = "raw"
    /\ Len(RowsOf(recorder)) = 3
    /\ window.message_count = 2
    /\ DOMAIN window.signal_values # {}
    /\ ~win_last.evaluated

====
